---- MODULE Spec2Model ----
(***************************************************************************)
(* Edtech AI: the hybrid persistence-and-generation core.                  *)
(*                                                                         *)
(* The repository holds several revisions of one single-page application.  *)
(* The API layer (const api) is the same text in src/unnamed/part_000 and  *)
(* src/unnamed/part_001; the two App controllers differ and both are       *)
(* modelled, selected by rev.                                              *)
(***************************************************************************)
EXTENDS Integers, Sequences, FiniteSets, TLC

(***************************************************************************)
(* Plan tiers and quota table                                              *)
(***************************************************************************)
PlanType == {"free", "pro", "campus"}

PLAN_LIMITS ==
    [free   |-> [maxDocs |-> 1,   maxSizeMB |-> 5],
     pro    |-> [maxDocs |-> 10,  maxSizeMB |-> 20],
     campus |-> [maxDocs |-> 999, maxSizeMB |-> 50]]

\* limit.maxSizeMB * 1024 * 1024
MaxSizeBytes(plan) == PLAN_LIMITS[plan].maxSizeMB * 1024 * 1024

\* The two revisions of the App controller.
Revisions == {"part_001", "part_000"}

\* Largest document count drawn as an input of the quota decision.
MaxProbeCount == 1000

\* File sizes drawn as inputs: around each plan's byte limit.
SizeProbes ==
    {0, 1} \cup UNION {{MaxSizeBytes(p) - 1, MaxSizeBytes(p), MaxSizeBytes(p) + 1} : p \in PlanType}

\* handleFileUpload's quota checks, mutated: the count test is > instead of >=.
UploadDecisionOffByOne(r, plan, n, size) ==
    IF r = "part_000" /\ size > MaxSizeBytes(plan) THEN "size-exceeded"
    ELSE IF n > PLAN_LIMITS[plan].maxDocs THEN "count-exceeded"
    ELSE "allow"

\* handleFileUpload's quota checks, mutated: part_000 tests the count first.
UploadDecisionCountFirst(r, plan, n, size) ==
    IF n >= PLAN_LIMITS[plan].maxDocs THEN "count-exceeded"
    ELSE IF r = "part_000" /\ size > MaxSizeBytes(plan) THEN "size-exceeded"
    ELSE "allow"

\* handleFileUpload's quota checks, as a decision on (plan, docs.length, file.size).
\*   part_001: only   if (docs.length >= limit) { alert; open pricing; return }
\*   part_000: first  if (file.size > limit.maxSizeMB*1024*1024) { alert; return }
\*             then   if (docs.length >= limit.maxDocs) { alert; return }
UploadDecision(r, plan, n, size) ==
    IF r = "part_000" /\ size > MaxSizeBytes(plan) THEN "size-exceeded"
    ELSE IF n >= PLAN_LIMITS[plan].maxDocs THEN "count-exceeded"
    ELSE "allow"

(***************************************************************************)
(* Values                                                                  *)
(***************************************************************************)
\* Owner ids. The controller runs for the signed-in user "u1"; the repository
\* is also called for "u2".
Users == {"u1", "u2"}

\* JavaScript's null / undefined, as a value comparable with every other one.
Null == [null |-> TRUE]

STORAGE_KEYS ==
    [SESSION       |-> "edtech_session_v5",
     DOCS_PREFIX   |-> "edtech_docs_v5_",
     CHAT_PREFIX   |-> "edtech_chat_v5_",
     EVENTS_PREFIX |-> "edtech_events_v5_"]

MASTER_PROMPT_KEY == "edtech_master_prompt"

\* `${prefix}${userId}`: a composite key; a global key has no owner part.
Key(prefix, userId) == <<prefix, userId>>
GlobalKey(name) == <<name>>

\* The id handleAuth gives the profile it makes up when no remote store is configured.
LOCAL_USER_ID == "local-user"

LocalKeys ==
    {Key(STORAGE_KEYS[p], u) : p \in {"DOCS_PREFIX", "CHAT_PREFIX", "EVENTS_PREFIX"},
                               u \in Users \cup {LOCAL_USER_ID}}
        \cup {GlobalKey(MASTER_PROMPT_KEY), GlobalKey(STORAGE_KEYS.SESSION)}

\* JSON.stringify / JSON.parse: a stored string is the text of a value, told
\* apart from the value itself and from a missing item (Null).
JSONstringify(v) == [json |-> v]
JSONparse(str) == str.json

\* The tables of the remote store the API layer addresses.
Tables == {"documents", "chats", "events", "system_settings", "profiles"}

(***************************************************************************)
(* State                                                                   *)
(***************************************************************************)
VARIABLES
    rev,            \* which revision of the App controller runs
    qIn,            \* quota decision: the inputs drawn (plan, n, size)
    qOut,           \* quota decision: the outcome, "none" before the check ran
    supabase,       \* TRUE iff the remote client was constructed (isSupabaseConfigured)
    downTables,     \* remote tables every call on which fails (missing table, no permission)
    localStorage,   \* the browser's localStorage: key -> Null or a stored string
    db,             \* the remote store: table -> sequence of rows, in insertion order
    calls,          \* API calls in flight: remote requests not yet answered
    user,           \* App state: the signed-in profile, or Null
    docs,           \* App state: the in-memory document list
    activeDocId,    \* App state: [id |-> the selected grounding document's id], or Null
    view,           \* App state: the screen shown
    modalState,     \* App state: which modals are open
    isProcessingFile, \* App state (part_000): an upload is being processed
    alerts,         \* the alert() messages shown so far, by kind, in order
    uploads,        \* handleFileUpload invocations suspended at an await
    nextId,         \* the next fresh id (crypto.randomUUID / Date.now)
    ncalls,         \* repository client: the number of API calls made so far
    rets,           \* repository client: the last two calls that returned, latest last
    messages,       \* App state: the conversation transcript (part_000: chat)
    isThinking,     \* App state: a turn is in progress (part_000: isStreaming)
    lessonCtx,      \* App state: the text of the last generated lesson plan
    sessionKey,     \* sessionStorage item API_KEY: Null or [key |-> the key]
    turns           \* handleSendMessage invocations suspended at an await

qvars == <<qIn, qOut>>
storevars == <<localStorage, db, calls>>
chatvars == <<messages, isThinking, lessonCtx, sessionKey, turns>>
appvars == <<user, docs, activeDocId, view, modalState, isProcessingFile, alerts, uploads, nextId,
             chatvars>>
clientvars == <<ncalls, rets>>
cfgvars == <<rev, qIn, qOut, supabase, downTables>>
vars == <<rev, qIn, qOut, supabase, downTables, localStorage, db, calls,
          user, docs, activeDocId, view, modalState, isProcessingFile, alerts, uploads, nextId,
          ncalls, rets, messages, isThinking, lessonCtx, sessionKey, turns>>

\* What the upload handlers never touch, and what a step of the API layer never touches.
outsideUpload == <<cfgvars, clientvars, chatvars>>
outsideStore == <<cfgvars, clientvars, chatvars, user, docs, activeDocId, view, modalState,
                  isProcessingFile, uploads, nextId>>

\* The state right after page load, before any handler ran.
EmptyLocalStorage == [k \in LocalKeys |-> Null]
EmptyDb == [t \in Tables |-> <<>>]
NoModal == [pricing |-> FALSE, apiKey |-> FALSE, settings |-> FALSE]
NoQuotaInput == [plan |-> "free", n |-> 0, size |-> 0]

InitStores ==
    /\ localStorage = EmptyLocalStorage
    /\ db = EmptyDb
    /\ calls = <<>>

InitApp ==
    /\ docs = <<>>
    /\ activeDocId = Null
    /\ view = "dashboard"
    /\ modalState = NoModal
    /\ isProcessingFile = FALSE
    /\ alerts = <<>>
    /\ uploads = <<>>
    /\ nextId = 1
    /\ messages = <<>>
    /\ isThinking = FALSE
    /\ lessonCtx = ""
    /\ sessionKey = Null
    /\ turns = <<>>

InitClient ==
    /\ ncalls = 0
    /\ rets = <<>>

(***************************************************************************)
(* SpecQuota: the quota decision on drawn inputs                           *)
(***************************************************************************)
InitQuota ==
    /\ rev \in Revisions
    /\ qIn \in [plan : PlanType, n : 0..MaxProbeCount, size : SizeProbes]
    /\ qOut = "none"
    /\ supabase = FALSE
    /\ downTables = {}
    /\ user = Null
    /\ InitStores
    /\ InitApp
    /\ InitClient

\* The quota checks at the head of handleFileUpload run on the drawn inputs.
QuotaCheck ==
    /\ qOut = "none"
    /\ qOut' = UploadDecision(rev, qIn.plan, qIn.n, qIn.size)
    /\ UNCHANGED <<rev, qIn, supabase, downTables, storevars, appvars, clientvars>>

NextQuota == QuotaCheck

SpecQuota == InitQuota /\ [][NextQuota]_vars

(***************************************************************************)
(* API layer: requests to the remote store                                 *)
(***************************************************************************)
\* A rejected promise, as the value an awaiting caller receives.
Threw == [threw |-> TRUE]

\* What an awaited call hands to its caller when its promise resolves with v.
Resolved(v) == [value |-> v]

\* How one request to the remote store can end: with data ("ok"), with an
\* { error } result ("error"), or with the promise rejected ("throw"). A down
\* table never answers "ok".
Outcomes(table) ==
    IF table \in downTables THEN {"error", "throw"} ELSE {"ok", "error", "throw"}

RemoveAt(seq, i) == SubSeq(seq, 1, i - 1) \o SubSeq(seq, i + 1, Len(seq))

\* .eq(column, value) on the rows of a table, in stored order.
RowsEq(table, column, value) ==
    LET Match(row) == row[column] = value IN SelectSeq(db[table], Match)

\* A call that issued a remote request: what it is, where it stands, and who
\* awaits it (Null: nobody, the promise is dropped). `data` is what an earlier
\* request of the call returned; `failed` notes that a request of the call failed.
RemoteCall(op, pc, args, awaiter) ==
    [op |-> op, pc |-> pc, args |-> args, awaiter |-> awaiter, result |-> Null,
     data |-> Null, failed |-> FALSE]

\* A call that has settled and whose awaiting caller has not resumed yet.
SettledCall(op, args, awaiter, result) ==
    [op |-> op, pc |-> "done", args |-> args, awaiter |-> awaiter, result |-> result,
     data |-> Null, failed |-> FALSE]

\* A request of the remote store did not end "ok".
Failed(outcome) == outcome # "ok"

\* The call at position i settles with `result`: an awaited call keeps it for its
\* caller, a dropped promise disappears.
Settle(i, result, outcome) ==
    IF calls[i].awaiter = Null
    THEN RemoveAt(calls, i)
    ELSE [calls EXCEPT ![i].pc = "done", ![i].result = result,
                       ![i].failed = @ \/ Failed(outcome)]

\* The call at position i goes on to its next request.
Continue(i, pc, data, outcome) ==
    [calls EXCEPT ![i].pc = pc, ![i].data = data, ![i].failed = @ \/ Failed(outcome)]

\* localStorage.getItem(key), parsed, or `dflt` when the item is missing.
ParsedItemOr(key, dflt) ==
    IF localStorage[key] # Null THEN JSONparse(localStorage[key]) ELSE dflt

(***************************************************************************)
(* api.saveDoc / api.getDocs                                               *)
(***************************************************************************)
\* api.saveDoc, local branch: read the owner's list, push, write it back.
SaveDocLocalStorage(doc) ==
    LET key == Key(STORAGE_KEYS.DOCS_PREFIX, doc.user_id)
        stored == ParsedItemOr(key, <<>>)
    IN  [localStorage EXCEPT ![key] = JSONstringify(Append(stored, doc))]

\* api.saveDoc(doc) up to its first await, as it runs inside the caller's step.
SaveDocCall(doc, awaiter) ==
    IF ~supabase
    THEN /\ localStorage' = SaveDocLocalStorage(doc)
         /\ calls' = IF awaiter = Null THEN calls
                     ELSE Append(calls, SettledCall("saveDoc", doc, awaiter, Null))
         /\ UNCHANGED db
    ELSE /\ calls' = Append(calls, RemoteCall("saveDoc", "insert", doc, awaiter))
         /\ UNCHANGED <<localStorage, db>>

\* api.saveDoc, remote branch, mutated: a failed insert is written to localStorage.
SaveDocInsertEffectFallback(doc, outcome) ==
    IF outcome = "ok"
    THEN [ls |-> localStorage, db |-> [db EXCEPT !.documents = Append(@, doc)]]
    ELSE [ls |-> SaveDocLocalStorage(doc), db |-> db]

\* api.saveDoc, remote branch: supabase.from('documents').insert(doc). An error
\* result is logged, an exception is caught and logged; nothing else happens.
SaveDocInsertEffect(doc, outcome) ==
    IF outcome = "ok"
    THEN [ls |-> localStorage, db |-> [db EXCEPT !.documents = Append(@, doc)]]
    ELSE [ls |-> localStorage, db |-> db]

\* The remote store answers a pending insert of api.saveDoc.
SaveDocInsert(i) ==
    /\ calls[i].op = "saveDoc" /\ calls[i].pc = "insert"
    /\ \E outcome \in Outcomes("documents") :
        LET eff == SaveDocInsertEffect(calls[i].args, outcome) IN
        /\ localStorage' = eff.ls
        /\ db' = eff.db
        /\ calls' = Settle(i, Null, outcome)
    /\ UNCHANGED <<outsideStore, alerts>>

\* What api.getDocs(userId) returns, given how its remote select ends (the
\* outcome is not consulted in the local branch). The remote branch has no
\* try/catch: `data || []` on an error result, a rejection goes to the caller.
GetDocsResult(userId, outcome) ==
    IF ~supabase THEN Resolved(ParsedItemOr(Key(STORAGE_KEYS.DOCS_PREFIX, userId), <<>>))
    ELSE IF outcome = "ok" THEN Resolved(RowsEq("documents", "user_id", userId))
    ELSE IF outcome = "error" THEN Resolved(<<>>)
    ELSE Threw

\* api.getDocs(userId) up to its first await.
GetDocsCall(userId, awaiter) ==
    IF ~supabase
    THEN /\ calls' = Append(calls, SettledCall("getDocs", [userId |-> userId], awaiter,
                                               GetDocsResult(userId, "ok")))
         /\ UNCHANGED <<localStorage, db>>
    ELSE /\ calls' = Append(calls, RemoteCall("getDocs", "select", [userId |-> userId], awaiter))
         /\ UNCHANGED <<localStorage, db>>

\* The remote store answers the select of api.getDocs.
GetDocsSelect(i) ==
    /\ calls[i].op = "getDocs" /\ calls[i].pc = "select"
    /\ \E outcome \in Outcomes("documents") :
        calls' = Settle(i, GetDocsResult(calls[i].args.userId, outcome), outcome)
    /\ UNCHANGED <<outsideStore, alerts, localStorage, db>>

(***************************************************************************)
(* api.saveChat / api.getChat                                              *)
(***************************************************************************)
\* .maybeSingle() and .single(): the row when the request succeeds and exactly
\* one row matches, else data is null (no row: null; several rows: an error).
SingleRow(rows, outcome) ==
    IF outcome = "ok" /\ Len(rows) = 1 THEN rows[1] ELSE Null

\* How a .maybeSingle() request ended for its caller: several rows are an error.
MaybeSingleOutcome(rows, outcome) ==
    IF outcome = "ok" /\ Len(rows) > 1 THEN "error" ELSE outcome

\* api.saveChat, local branch: the owner's item is replaced.
SaveChatLocalStorage(userId, msgs) ==
    [localStorage EXCEPT ![Key(STORAGE_KEYS.CHAT_PREFIX, userId)] = JSONstringify(msgs)]

\* The call records api.saveChat(userId, msgs) leaves behind at its first
\* await: none for a local write nobody awaits.
SaveChatIssued(userId, msgs, awaiter) ==
    LET args == [userId |-> userId, messages |-> msgs] IN
    IF supabase THEN <<RemoteCall("saveChat", "select", args, awaiter)>>
    ELSE IF awaiter = Null THEN <<>>
    ELSE <<SettledCall("saveChat", args, awaiter, Null)>>

\* localStorage after api.saveChat(userId, msgs) reached its first await.
SaveChatStored(userId, msgs) ==
    IF supabase THEN localStorage ELSE SaveChatLocalStorage(userId, msgs)

\* api.saveChat(userId, msgs) up to its first await.
SaveChatCall(userId, msgs, awaiter) ==
    /\ localStorage' = SaveChatStored(userId, msgs)
    /\ calls' = calls \o SaveChatIssued(userId, msgs, awaiter)
    /\ UNCHANGED db

\* api.saveChat, remote: select('id').eq('user_id', userId).maybeSingle() is
\* answered; `if (data)` chooses update or insert; an exception is caught and logged.
SaveChatSelect(i) ==
    /\ calls[i].op = "saveChat" /\ calls[i].pc = "select"
    /\ \E outcome \in Outcomes("chats") :
        LET rows == RowsEq("chats", "user_id", calls[i].args.userId)
            data == SingleRow(rows, outcome)
        IN  calls' = IF outcome = "throw" THEN Settle(i, Null, outcome)
                     ELSE Continue(i, IF data # Null THEN "update" ELSE "insert", data,
                                   MaybeSingleOutcome(rows, outcome))
    /\ UNCHANGED <<outsideStore, alerts, localStorage, db>>

\* update({ messages }).eq('id', data.id) on the chats table.
UpdateChatRows(id, msgs) ==
    [db EXCEPT !.chats = [k \in DOMAIN @ |->
        IF @[k].id = id THEN [@[k] EXCEPT !.messages = msgs] ELSE @[k]]]

\* api.saveChat, remote: the update is answered; its result is not looked at.
SaveChatUpdate(i) ==
    /\ calls[i].op = "saveChat" /\ calls[i].pc = "update"
    /\ \E outcome \in Outcomes("chats") :
        /\ db' = IF outcome = "ok"
                 THEN UpdateChatRows(calls[i].data.id, calls[i].args.messages) ELSE db
        /\ calls' = Settle(i, Null, outcome)
    /\ UNCHANGED <<outsideStore, alerts, localStorage>>

\* api.saveChat, remote: insert({ user_id, messages }) is answered; its result is
\* not looked at. The store gives the new row its id.
SaveChatInsert(i) ==
    /\ calls[i].op = "saveChat" /\ calls[i].pc = "insert"
    /\ \E outcome \in Outcomes("chats") :
        /\ db' = IF outcome = "ok"
                 THEN [db EXCEPT !.chats = Append(@,
                          [id |-> Len(@) + 1, user_id |-> calls[i].args.userId,
                           messages |-> calls[i].args.messages])]
                 ELSE db
        /\ calls' = Settle(i, Null, outcome)
    /\ UNCHANGED <<outsideStore, alerts, localStorage>>

\* What api.getChat(userId) returns, given how its remote
\* select('messages').eq('user_id', userId).single() ends: `data?.messages || []`;
\* there is no try/catch, a rejection goes to the caller.
GetChatResult(userId, outcome) ==
    IF ~supabase THEN Resolved(ParsedItemOr(Key(STORAGE_KEYS.CHAT_PREFIX, userId), <<>>))
    ELSE IF outcome = "throw" THEN Threw
    ELSE LET data == SingleRow(RowsEq("chats", "user_id", userId), outcome)
         IN  Resolved(IF data # Null THEN data.messages ELSE <<>>)

\* api.getChat(userId) up to its first await.
GetChatCall(userId, awaiter) ==
    IF ~supabase
    THEN /\ calls' = Append(calls, SettledCall("getChat", [userId |-> userId], awaiter,
                                               GetChatResult(userId, "ok")))
         /\ UNCHANGED <<localStorage, db>>
    ELSE /\ calls' = Append(calls, RemoteCall("getChat", "select", [userId |-> userId], awaiter))
         /\ UNCHANGED <<localStorage, db>>

\* The remote store answers the select of api.getChat.
GetChatSelect(i) ==
    /\ calls[i].op = "getChat" /\ calls[i].pc = "select"
    /\ \E outcome \in Outcomes("chats") :
        calls' = Settle(i, GetChatResult(calls[i].args.userId, outcome), outcome)
    /\ UNCHANGED <<outsideStore, alerts, localStorage, db>>

(***************************************************************************)
(* api.getMasterPrompt / api.setMasterPrompt                               *)
(***************************************************************************)
DEFAULT_SYSTEM_INSTRUCTION == "ROLE: You are Edtech AI"

\* `value || DEFAULT_SYSTEM_INSTRUCTION`: a missing or empty value is falsy.
OrDefault(found, value) ==
    IF found /\ value # "" THEN value ELSE DEFAULT_SYSTEM_INSTRUCTION

\* What api.getMasterPrompt() returns, given how its remote maybeSingle() ends
\* (no try/catch in the remote branch). localStorage holds the prompt as it is,
\* not as JSON.
GetMasterPromptResult(outcome) ==
    IF ~supabase
    THEN LET item == localStorage[GlobalKey(MASTER_PROMPT_KEY)]
         IN  Resolved(OrDefault(item # Null, IF item # Null THEN item.raw ELSE ""))
    ELSE IF outcome = "throw" THEN Threw
    ELSE LET data == SingleRow(RowsEq("system_settings", "key", "master_prompt"), outcome)
         IN  Resolved(OrDefault(data # Null, IF data # Null THEN data.value ELSE ""))

\* The call record api.getMasterPrompt() leaves behind at its first await.
GetMasterPromptIssued(awaiter) ==
    IF supabase THEN <<RemoteCall("getMasterPrompt", "select", Null, awaiter)>>
    ELSE <<SettledCall("getMasterPrompt", Null, awaiter, GetMasterPromptResult("ok"))>>

\* api.getMasterPrompt() up to its first await.
GetMasterPromptCall(awaiter) ==
    /\ calls' = calls \o GetMasterPromptIssued(awaiter)
    /\ UNCHANGED <<localStorage, db>>

\* The remote store answers the select of api.getMasterPrompt.
GetMasterPromptSelect(i) ==
    /\ calls[i].op = "getMasterPrompt" /\ calls[i].pc = "select"
    /\ \E outcome \in Outcomes("system_settings") :
        calls' = Settle(i, GetMasterPromptResult(outcome), outcome)
    /\ UNCHANGED <<outsideStore, alerts, localStorage, db>>

\* api.setMasterPrompt(prompt) up to its first await.
SetMasterPromptCall(prompt, awaiter) ==
    IF ~supabase
    THEN /\ localStorage' = [localStorage EXCEPT ![GlobalKey(MASTER_PROMPT_KEY)] = [raw |-> prompt]]
         /\ calls' = IF awaiter = Null THEN calls
                     ELSE Append(calls, SettledCall("setMasterPrompt", [prompt |-> prompt],
                                                    awaiter, Null))
         /\ UNCHANGED db
    ELSE /\ calls' = Append(calls, RemoteCall("setMasterPrompt", "select", [prompt |-> prompt],
                                              awaiter))
         /\ UNCHANGED <<localStorage, db>>

\* api.setMasterPrompt, remote: the select of the settings row is answered; an
\* exception is caught, logged and alerted.
SetMasterPromptSelect(i) ==
    /\ calls[i].op = "setMasterPrompt" /\ calls[i].pc = "select"
    /\ \E outcome \in Outcomes("system_settings") :
        LET rows == RowsEq("system_settings", "key", "master_prompt")
            data == SingleRow(rows, outcome)
        IN  /\ calls' = IF outcome = "throw" THEN Settle(i, Null, outcome)
                        ELSE Continue(i, IF data # Null THEN "update" ELSE "insert", data,
                                      MaybeSingleOutcome(rows, outcome))
            /\ alerts' = IF outcome = "throw" THEN Append(alerts, "settings-save-failed")
                         ELSE alerts
    /\ UNCHANGED <<outsideStore, localStorage, db>>

\* update({ value: prompt }).eq('key', 'master_prompt') or
\* insert({ key: 'master_prompt', value: prompt }) on system_settings.
WriteSettingsRow(pc, prompt) ==
    IF pc = "update"
    THEN [db EXCEPT !.system_settings = [k \in DOMAIN @ |->
            IF @[k].key = "master_prompt" THEN [@[k] EXCEPT !.value = prompt] ELSE @[k]]]
    ELSE [db EXCEPT !.system_settings = Append(@, [key |-> "master_prompt", value |-> prompt])]

\* api.setMasterPrompt, remote: the update or insert is answered; an { error }
\* result is not looked at, an exception is caught and alerted.
SetMasterPromptWrite(i) ==
    /\ calls[i].op = "setMasterPrompt" /\ calls[i].pc \in {"update", "insert"}
    /\ \E outcome \in Outcomes("system_settings") :
        /\ db' = IF outcome = "ok" THEN WriteSettingsRow(calls[i].pc, calls[i].args.prompt)
                 ELSE db
        /\ alerts' = IF outcome = "throw" THEN Append(alerts, "settings-save-failed")
                     ELSE alerts
        /\ calls' = Settle(i, Null, outcome)
    /\ UNCHANGED <<outsideStore, localStorage>>

(***************************************************************************)
(* api.getEvents / api.saveEvent / api.deleteEvent                         *)
(***************************************************************************)
\* The owner's events in localStorage: `str ? JSON.parse(str) : []`.
LocalEvents(userId) == ParsedItemOr(Key(STORAGE_KEYS.EVENTS_PREFIX, userId), <<>>)

\* What api.getEvents(userId) returns, given how its remote select ends: the
\* rows on success; an { error } result is thrown inside the try, and the catch
\* reads localStorage.
GetEventsResult(userId, outcome) ==
    IF ~supabase THEN Resolved(LocalEvents(userId))
    ELSE IF outcome = "ok" THEN Resolved(RowsEq("events", "user_id", userId))
    ELSE Resolved(LocalEvents(userId))

\* api.getEvents(userId) up to its first await.
GetEventsCall(userId, awaiter) ==
    IF ~supabase
    THEN /\ calls' = Append(calls, SettledCall("getEvents", [userId |-> userId], awaiter,
                                               GetEventsResult(userId, "ok")))
         /\ UNCHANGED <<localStorage, db>>
    ELSE /\ calls' = Append(calls, RemoteCall("getEvents", "select", [userId |-> userId], awaiter))
         /\ UNCHANGED <<localStorage, db>>

\* The remote store answers the select of api.getEvents.
GetEventsSelect(i) ==
    /\ calls[i].op = "getEvents" /\ calls[i].pc = "select"
    /\ \E outcome \in Outcomes("events") :
        calls' = Settle(i, GetEventsResult(calls[i].args.userId, outcome), outcome)
    /\ UNCHANGED <<outsideStore, alerts, localStorage, db>>

\* The owner's list in localStorage with the event pushed.
PushLocalEvent(userId, event) ==
    [localStorage EXCEPT ![Key(STORAGE_KEYS.EVENTS_PREFIX, userId)] =
        JSONstringify(Append(LocalEvents(userId), event))]

\* The row api.saveEvent inserts.
EventRow(userId, event) ==
    [id |-> event.id, user_id |-> userId, title |-> event.title, date |-> event.date,
     type |-> event.type]

\* api.saveEvent(userId, event) up to its first await.
SaveEventCall(userId, event, awaiter) ==
    LET args == [userId |-> userId, event |-> event] IN
    IF ~supabase
    THEN /\ localStorage' = PushLocalEvent(userId, event)
         /\ calls' = IF awaiter = Null THEN calls
                     ELSE Append(calls, SettledCall("saveEvent", args, awaiter, Null))
         /\ UNCHANGED db
    ELSE /\ calls' = Append(calls, RemoteCall("saveEvent", "insert", args, awaiter))
         /\ UNCHANGED <<localStorage, db>>

\* api.saveEvent, remote branch, mutated: a failed insert is only logged, as in
\* api.saveDoc.
SaveEventInsertEffectNoFallback(userId, event, outcome) ==
    IF outcome = "ok"
    THEN [ls |-> localStorage, db |-> [db EXCEPT !.events = Append(@, EventRow(userId, event))]]
    ELSE [ls |-> localStorage, db |-> db]

\* api.saveEvent, remote branch: the insert; an { error } result is thrown
\* inside the try, and the catch pushes the event to the owner's local list.
SaveEventInsertEffect(userId, event, outcome) ==
    IF outcome = "ok"
    THEN [ls |-> localStorage, db |-> [db EXCEPT !.events = Append(@, EventRow(userId, event))]]
    ELSE [ls |-> PushLocalEvent(userId, event), db |-> db]

\* The remote store answers the insert of api.saveEvent.
SaveEventInsert(i) ==
    /\ calls[i].op = "saveEvent" /\ calls[i].pc = "insert"
    /\ \E outcome \in Outcomes("events") :
        LET eff == SaveEventInsertEffect(calls[i].args.userId, calls[i].args.event, outcome) IN
        /\ localStorage' = eff.ls
        /\ db' = eff.db
        /\ calls' = Settle(i, Null, outcome)
    /\ UNCHANGED <<outsideStore, alerts>>

\* The owner's list in localStorage without the events of that id.
FilterLocalEvent(userId, eventId) ==
    LET Keep(e) == e.id # eventId IN
    [localStorage EXCEPT ![Key(STORAGE_KEYS.EVENTS_PREFIX, userId)] =
        JSONstringify(SelectSeq(LocalEvents(userId), Keep))]

\* api.deleteEvent(userId, eventId) up to its first await.
DeleteEventCall(userId, eventId, awaiter) ==
    LET args == [userId |-> userId, eventId |-> eventId] IN
    IF ~supabase
    THEN /\ localStorage' = FilterLocalEvent(userId, eventId)
         /\ calls' = IF awaiter = Null THEN calls
                     ELSE Append(calls, SettledCall("deleteEvent", args, awaiter, Null))
         /\ UNCHANGED db
    ELSE /\ calls' = Append(calls, RemoteCall("deleteEvent", "delete", args, awaiter))
         /\ UNCHANGED <<localStorage, db>>

\* api.deleteEvent, remote branch: delete().eq('id', eventId), with no owner
\* filter; on an { error } result or an exception the owner's local list is filtered.
DeleteEventEffect(userId, eventId, outcome) ==
    LET Keep(row) == row.id # eventId IN
    IF outcome = "ok"
    THEN [ls |-> localStorage, db |-> [db EXCEPT !.events = SelectSeq(@, Keep)]]
    ELSE [ls |-> FilterLocalEvent(userId, eventId), db |-> db]

\* The remote store answers the delete of api.deleteEvent.
DeleteEventDelete(i) ==
    /\ calls[i].op = "deleteEvent" /\ calls[i].pc = "delete"
    /\ \E outcome \in Outcomes("events") :
        LET eff == DeleteEventEffect(calls[i].args.userId, calls[i].args.eventId, outcome) IN
        /\ localStorage' = eff.ls
        /\ db' = eff.db
        /\ calls' = Settle(i, Null, outcome)
    /\ UNCHANGED <<outsideStore, alerts>>

(***************************************************************************)
(* handleFileUpload                                                        *)
(***************************************************************************)
\* Total number of handleFileUpload invocations explored.
MaxUploads == 3

\* The files a user picks: a small PDF and a text file just above the free size limit.
Files ==
    {[name |-> "A.pdf", kind |-> "pdf", size |-> 1, content |-> "text of A"],
     [name |-> "B.txt", kind |-> "txt", size |-> MaxSizeBytes("free") + 1, content |-> "text of B"]}

\* The DocumentFile built after extraction. part_001 types every non-PDF file
\* 'docx'; part_000 tells docx and txt apart.
NewDoc(id, owner, file) ==
    [id |-> id, user_id |-> owner, name |-> file.name,
     type |-> IF file.kind = "pdf" THEN "pdf"
              ELSE IF rev = "part_001" THEN "docx" ELSE file.kind,
     content |-> file.content, size |-> file.size]

\* handleFileUpload, mutated: the count denial alerts but does not return, so
\* the upload goes on to extraction.
HandleFileUploadNoReturn(file) ==
    /\ user # Null
    /\ nextId <= MaxUploads
    /\ nextId' = nextId + 1
    /\ LET decision == UploadDecision(rev, user.plan, Len(docs), file.size) IN
       /\ uploads' = Append(uploads,
              [id |-> nextId, file |-> file, docsSeen |-> docs, owner |-> user.id,
               pc |-> "extract", doc |-> Null])
       /\ alerts' = IF decision = "allow" THEN alerts ELSE Append(alerts, decision)
       /\ modalState' = IF decision # "allow" /\ rev = "part_001"
                        THEN [modalState EXCEPT !.pricing = TRUE] ELSE modalState
       /\ isProcessingFile' = IF rev = "part_000" THEN TRUE ELSE isProcessingFile
    /\ UNCHANGED <<outsideUpload, storevars, user, docs, activeDocId, view>>

\* handleFileUpload up to its first await: the quota checks, then extraction starts.
\* `docs` is captured as the render's value (part_001 builds newDocs from it).
HandleFileUpload(file) ==
    /\ user # Null
    /\ nextId <= MaxUploads
    /\ nextId' = nextId + 1
    /\ LET decision == UploadDecision(rev, user.plan, Len(docs), file.size) IN
       IF decision = "allow"
       THEN /\ uploads' = Append(uploads,
                   [id |-> nextId, file |-> file, docsSeen |-> docs, owner |-> user.id,
                    pc |-> "extract", doc |-> Null])
            /\ isProcessingFile' = IF rev = "part_000" THEN TRUE ELSE isProcessingFile
            /\ UNCHANGED <<alerts, modalState>>
       ELSE /\ alerts' = Append(alerts, decision)
            /\ modalState' = IF rev = "part_001" THEN [modalState EXCEPT !.pricing = TRUE]
                             ELSE modalState
            /\ UNCHANGED <<uploads, isProcessingFile>>
    /\ UNCHANGED <<outsideUpload, storevars, user, docs, activeDocId, view>>

\* Text extraction fails, mutated: the catch block alerts and the document is
\* listed all the same, with the text it has.
ExtractFailsListsDoc(i) ==
    /\ uploads[i].pc = "extract"
    /\ alerts' = Append(alerts, "parse-error")
    /\ docs' = Append(docs, NewDoc(uploads[i].id, uploads[i].owner, uploads[i].file))
    /\ uploads' = RemoveAt(uploads, i)
    /\ isProcessingFile' = IF rev = "part_000" THEN FALSE ELSE isProcessingFile
    /\ UNCHANGED <<outsideUpload, storevars, user, activeDocId,
                   view, modalState, nextId>>

\* Text extraction fails: the catch block alerts; part_000's finally clears the flag.
ExtractFails(i) ==
    /\ uploads[i].pc = "extract"
    /\ alerts' = Append(alerts, "parse-error")
    /\ uploads' = RemoveAt(uploads, i)
    /\ isProcessingFile' = IF rev = "part_000" THEN FALSE ELSE isProcessingFile
    /\ UNCHANGED <<outsideUpload, storevars, user, docs, activeDocId,
                   view, modalState, nextId>>

\* Text extraction returns.
\*   part_001: setDocs([...docs, doc]); api.saveDoc(doc) (not awaited);
\*             setActiveDocId(doc.id); setView('chat').
\*   part_000: await api.saveDoc(newDoc), the list is extended after it.
ExtractReturns(i) ==
    /\ uploads[i].pc = "extract"
    /\ LET up == uploads[i]
           doc == NewDoc(up.id, up.owner, up.file)
       IN IF rev = "part_001"
          THEN /\ docs' = Append(up.docsSeen, doc)
               /\ SaveDocCall(doc, Null)
               /\ activeDocId' = [id |-> doc.id]
               /\ view' = "chat"
               /\ uploads' = RemoveAt(uploads, i)
          ELSE /\ SaveDocCall(doc, [upload |-> up.id])
               /\ uploads' = [uploads EXCEPT ![i].pc = "saving", ![i].doc = doc]
               /\ UNCHANGED <<docs, activeDocId, view>>
    /\ UNCHANGED <<outsideUpload, user, modalState, isProcessingFile,
                   alerts, nextId>>

\* part_000: the awaited api.saveDoc has settled: setDocs(prev => [...prev, newDoc]),
\* then finally setIsProcessingFile(false).
UploadSaved(i, j) ==
    /\ uploads[i].pc = "saving"
    /\ calls[j].pc = "done" /\ calls[j].awaiter = [upload |-> uploads[i].id]
    /\ docs' = Append(docs, uploads[i].doc)
    /\ isProcessingFile' = FALSE
    /\ uploads' = RemoveAt(uploads, i)
    /\ calls' = RemoveAt(calls, j)
    /\ UNCHANGED <<outsideUpload, localStorage, db, user, activeDocId,
                   view, modalState, alerts, nextId>>

InitUpload ==
    /\ rev \in Revisions
    /\ qIn = NoQuotaInput /\ qOut = "none"
    /\ supabase \in BOOLEAN
    /\ downTables \in SUBSET {"documents"}
    /\ (~supabase => downTables = {})
    /\ user \in [id : {"u1"}, role : {"user"}, plan : PlanType]
    /\ InitStores
    /\ InitApp
    /\ InitClient

NextUpload ==
    \/ \E file \in Files : HandleFileUpload(file)
    \/ \E i \in DOMAIN uploads : ExtractReturns(i)
    \/ \E i \in DOMAIN uploads : ExtractFails(i)
    \/ \E i \in DOMAIN uploads : \E j \in DOMAIN calls : UploadSaved(i, j)
    \/ \E i \in DOMAIN calls : SaveDocInsert(i)

SpecUpload == InitUpload /\ [][NextUpload]_vars

(***************************************************************************)
(* SpecRepo: a caller of the API layer, one call at a time                 *)
(***************************************************************************)
\* Total number of API calls the caller makes.
MaxRepoCalls == 3

\* The transcripts a caller saves: two messages, in both orders.
UserMsg == [id |-> "m1", role |-> "user", text |-> "question"]
ModelMsg == [id |-> "m2", role |-> "model", text |-> "answer"]
MessageLists == {<<>>, <<UserMsg>>, <<UserMsg, ModelMsg>>, <<ModelMsg, UserMsg>>}

\* The system instructions an admin saves; the empty text is one of them.
Prompts == {"", "Be brief."}

\* The document a caller saves with its n-th call.
ClientDoc(n, userId) ==
    [id |-> n, user_id |-> userId, name |-> "notes.txt", type |-> "txt",
     content |-> "notes", size |-> 1]

\* The caller may make its next call: the previous one has returned.
ClientReady == calls = <<>> /\ ncalls < MaxRepoCalls

Client == [client |-> ncalls + 1]

ClientSaveChat(userId, msgs) ==
    /\ ClientReady
    /\ ncalls' = ncalls + 1
    /\ SaveChatCall(userId, msgs, Client)
    /\ UNCHANGED <<cfgvars, appvars, rets>>

ClientGetChat(userId) ==
    /\ ClientReady
    /\ ncalls' = ncalls + 1
    /\ GetChatCall(userId, Client)
    /\ UNCHANGED <<cfgvars, appvars, rets>>

ClientSaveDoc(userId) ==
    /\ ClientReady
    /\ ncalls' = ncalls + 1
    /\ SaveDocCall(ClientDoc(ncalls + 1, userId), Client)
    /\ UNCHANGED <<cfgvars, appvars, rets>>

ClientGetDocs(userId) ==
    /\ ClientReady
    /\ ncalls' = ncalls + 1
    /\ GetDocsCall(userId, Client)
    /\ UNCHANGED <<cfgvars, appvars, rets>>

ClientSetMasterPrompt(prompt) ==
    /\ ClientReady
    /\ ncalls' = ncalls + 1
    /\ SetMasterPromptCall(prompt, Client)
    /\ UNCHANGED <<cfgvars, appvars, rets>>

ClientGetMasterPrompt ==
    /\ ClientReady
    /\ ncalls' = ncalls + 1
    /\ GetMasterPromptCall(Client)
    /\ UNCHANGED <<cfgvars, appvars, rets>>

\* The last two entries of a sequence.
LastTwo(seq) == IF Len(seq) > 2 THEN SubSeq(seq, Len(seq) - 1, Len(seq)) ELSE seq

\* The caller's await resumes with the settled call's result.
ClientReturns ==
    /\ calls # <<>>
    /\ calls[1].pc = "done"
    /\ rets' = LastTwo(Append(rets,
                 [n |-> calls[1].awaiter.client, op |-> calls[1].op, args |-> calls[1].args,
                  result |-> calls[1].result, failed |-> calls[1].failed]))
    /\ calls' = <<>>
    /\ UNCHANGED <<cfgvars, appvars, localStorage, db, ncalls>>

InitRepo ==
    /\ rev = "part_001"
    /\ qIn = NoQuotaInput /\ qOut = "none"
    /\ supabase \in BOOLEAN
    /\ downTables = {}
    /\ user = Null
    /\ InitStores
    /\ InitApp
    /\ InitClient

NextRepo ==
    \/ \E u \in Users : \E M \in MessageLists : ClientSaveChat(u, M)
    \/ \E u \in Users : ClientGetChat(u)
    \/ \E u \in Users : ClientSaveDoc(u)
    \/ \E u \in Users : ClientGetDocs(u)
    \/ \E prompt \in Prompts : ClientSetMasterPrompt(prompt)
    \/ ClientGetMasterPrompt
    \/ ClientReturns
    \/ \E i \in DOMAIN calls : SaveChatSelect(i)
    \/ \E i \in DOMAIN calls : SaveChatUpdate(i)
    \/ \E i \in DOMAIN calls : SaveChatInsert(i)
    \/ \E i \in DOMAIN calls : GetChatSelect(i)
    \/ \E i \in DOMAIN calls : SaveDocInsert(i)
    \/ \E i \in DOMAIN calls : GetDocsSelect(i)
    \/ \E i \in DOMAIN calls : SetMasterPromptSelect(i)
    \/ \E i \in DOMAIN calls : SetMasterPromptWrite(i)
    \/ \E i \in DOMAIN calls : GetMasterPromptSelect(i)

SpecRepo == InitRepo /\ [][NextRepo]_vars

(***************************************************************************)
(* SpecEvents: a caller of the calendar-event operations                   *)
(***************************************************************************)
\* The events a caller saves.
CalendarEvents ==
    {[id |-> "e1", title |-> "Algebra", date |-> "2025-01-10", type |-> "class"],
     [id |-> "e2", title |-> "Grades due", date |-> "2025-01-12", type |-> "deadline"]}

ClientGetEvents(userId) ==
    /\ ClientReady
    /\ ncalls' = ncalls + 1
    /\ GetEventsCall(userId, Client)
    /\ UNCHANGED <<cfgvars, appvars, rets>>

ClientSaveEvent(userId, event) ==
    /\ ClientReady
    /\ ncalls' = ncalls + 1
    /\ SaveEventCall(userId, event, Client)
    /\ UNCHANGED <<cfgvars, appvars, rets>>

ClientDeleteEvent(userId, eventId) ==
    /\ ClientReady
    /\ ncalls' = ncalls + 1
    /\ DeleteEventCall(userId, eventId, Client)
    /\ UNCHANGED <<cfgvars, appvars, rets>>

InitEvents ==
    /\ rev = "part_001"
    /\ qIn = NoQuotaInput /\ qOut = "none"
    /\ supabase \in BOOLEAN
    /\ downTables \in SUBSET {"events"}
    /\ (~supabase => downTables = {})
    /\ user = Null
    /\ InitStores
    /\ InitApp
    /\ InitClient

NextEvents ==
    \/ \E u \in Users : ClientGetEvents(u)
    \/ \E u \in Users : \E e \in CalendarEvents : ClientSaveEvent(u, e)
    \/ \E u \in Users : \E e \in CalendarEvents : ClientDeleteEvent(u, e.id)
    \/ ClientReturns
    \/ \E i \in DOMAIN calls : GetEventsSelect(i)
    \/ \E i \in DOMAIN calls : SaveEventInsert(i)
    \/ \E i \in DOMAIN calls : DeleteEventDelete(i)

SpecEvents == InitEvents /\ [][NextEvents]_vars

(***************************************************************************)
(* handleSendMessage (part_001) / handleSend (part_000): a chat turn       *)
(***************************************************************************)
MaxTurns == 2
MaxChunks == 2

\* String.prototype.substring(from, to), mutated: the character at `to` is taken too.
SubstringInclusive(str, from, to) ==
    SubSeq(str, from + 1, IF to + 1 < Len(str) THEN to + 1 ELSE Len(str))

\* String.prototype.substring(from, to), for 0 <= from <= to.
Substring(str, from, to) == SubSeq(str, from + 1, IF to < Len(str) THEN to ELSE Len(str))

\* String.prototype.includes(word).
StrIncludes(str, word) ==
    \E k \in 1..(Len(str) - Len(word) + 1) : SubSeq(str, k, k + Len(word) - 1) = word

\* String.prototype.toLowerCase(), on the letters A-Z.
LowerOf ==
    [A |-> "a", B |-> "b", C |-> "c", D |-> "d", E |-> "e", F |-> "f", G |-> "g",
     H |-> "h", I |-> "i", J |-> "j", K |-> "k", L |-> "l", M |-> "m", N |-> "n",
     O |-> "o", P |-> "p", Q |-> "q", R |-> "r", S |-> "s", T |-> "t", U |-> "u",
     V |-> "v", W |-> "w", X |-> "x", Y |-> "y", Z |-> "z"]
LowerChar(c) == IF c \in DOMAIN LowerOf THEN LowerOf[c] ELSE c
RECURSIVE LowerFrom(_, _)
LowerFrom(str, k) ==
    IF k > Len(str) THEN "" ELSE LowerChar(SubSeq(str, k, k)) \o LowerFrom(str, k + 1)
ToLowerCase(str) == LowerFrom(str, 1)

\* The prompt the Quiz Maker sends: it quotes the last lesson plan when there is one.
QuizPrompt(topic) ==
    IF lessonCtx # ""
    THEN "Based on this lesson plan: " \o Substring(lessonCtx, 0, 500)
            \o "..., create a quiz on " \o topic
    ELSE "Create a quiz on " \o topic

\* The calls of handleSendMessage: the chat input, the Lesson Planner and the
\* Quiz Maker, with the text and the intent tag (opts.type) each passes
\* ("none": no tag). part_000 has the chat input only.
Sends ==
    {[text |-> "Explain osmosis", type |-> "none"],
     [text |-> "Create a lesson plan on osmosis.", type |-> "lesson"],
     [text |-> QuizPrompt("osmosis"), type |-> "quiz"]}

\* text.toLowerCase().includes(word).
Includes(text, word) == StrIncludes(ToLowerCase(text), word)

\* The text chunks a completion stream yields; the last one is the empty string.
Chunks == {"Hello", " world", ""}

ERROR_TEXT ==
    [part_001 |-> "Error connecting to AI. Please check your API key.",
     part_000 |-> "Error generating response. Check API Key."]

\* crypto.randomUUID() / Date.now(): a fresh id, here the turn and the message's part in it.
MsgId(turn, part) == [turn |-> turn, part |-> part]

\* A Message; the optional fields a literal leaves out are FALSE / empty.
Message(id, role, text) ==
    [id |-> id, role |-> role, text |-> text, isThinking |-> FALSE, isError |-> FALSE,
     suggestions |-> <<>>]

\* The follow-up suggestions of part_001, by intent tag and user text.
IsLesson(type, text) == type = "lesson" \/ Includes(text, "lesson plan")
IsQuiz(type, text) == type = "quiz" \/ Includes(text, "quiz")
Suggestions(type, text) ==
    IF IsLesson(type, text)
    THEN <<[label |-> "Create Quiz for this", action |-> "quiz"],
           [label |-> "Generate Rubric", action |-> "rubric"]>>
    ELSE IF IsQuiz(type, text)
    THEN <<[label |-> "Explain Answer Key", action |-> "chat"]>>
    ELSE <<>>

\* The longest piece of a grounding document that goes into the system instruction.
MaxContextChars == 30000

\* FORMAT_OPTIONS, by id; every send of the model uses the default format 'auto'.
FORMAT_OPTIONS == [auto |-> "Answer naturally."]

\* docs.find(d => d.id === activeDocId) when includeDoc (= !!activeDocId) holds,
\* else nothing.
ActiveDoc ==
    IF activeDocId # Null /\ \E k \in DOMAIN docs : docs[k].id = activeDocId.id
    THEN docs[CHOOSE k \in DOMAIN docs : docs[k].id = activeDocId.id]
    ELSE Null

\* `\n\n=== CONTEXT: ${activeDoc.name} ===\n`
ContextHeader(doc) == "\n\n=== CONTEXT: " \o doc.name \o " ===\n"

\* activeDoc.content.substring(0, 30000)
DocSegment(doc) == Substring(doc.content, 0, MaxContextChars)

\* The system instruction of a turn, from the master prompt.
\*   part_001: sys += context of the active document; sys += `\n\nFORMAT: ...`
\*   part_000: `${masterPrompt}\nFormat Requirement: ${formatInst}`
SystemInstruction(master, doc) ==
    IF rev = "part_001"
    THEN master \o (IF doc # Null THEN ContextHeader(doc) \o DocSegment(doc) ELSE "")
                \o "\n\nFORMAT: " \o FORMAT_OPTIONS.auto
    ELSE master \o "\nFormat Requirement: " \o FORMAT_OPTIONS.auto

\* api.generateAIStream: the request contents are the history, each message as
\* { role, parts: [{ text }] }, with the prompt pushed as the last user turn.
Contents(hist, prompt) ==
    [k \in DOMAIN hist |->
        [role |-> IF hist[k].role = "user" THEN "user" ELSE "model", text |-> hist[k].text]]
    \o <<[role |-> "user", text |-> prompt]>>

\* getApiKey(), with no key in the build's environment.
GetApiKey == sessionKey

\* ApiKeyModal, "Save & Start": the key goes to sessionStorage, the modal closes.
SaveApiKey ==
    /\ modalState.apiKey
    /\ sessionKey' = [key |-> "k"]
    /\ modalState' = [modalState EXCEPT !.apiKey = FALSE]
    /\ UNCHANGED <<cfgvars, clientvars, storevars, user, docs, activeDocId, view,
                   isProcessingFile, alerts, uploads, nextId,
                   messages, isThinking, lessonCtx, turns>>

\* `if (!apiKey) { toggleModal('apiKey', true); return; }`, mutated: the turn is
\* marked as in progress before the key is looked at.
SetupRequiredThinking ==
    /\ modalState' = [modalState EXCEPT !.apiKey = TRUE]
    /\ isThinking' = TRUE
    /\ UNCHANGED <<messages, view, turns, nextId, localStorage, calls>>

\* `if (!apiKey) { toggleModal('apiKey', true); return; }` (part_000:
\* setShowApiKey(true)): the API-key modal opens and the handler returns.
SetupRequired ==
    /\ modalState' = [modalState EXCEPT !.apiKey = TRUE]
    /\ UNCHANGED <<messages, isThinking, view, turns, nextId, localStorage, calls>>

\* handleSendMessage(text, _, {type}) / handleSend() up to `await api.getMasterPrompt()`.
\* part_001 saves the transcript with the user message first, without awaiting, and
\* hands the completion service that transcript as history; part_000 does not save
\* here and hands over the transcript without the user message.
HandleSendMessage(text, type) ==
    /\ user # Null
    /\ nextId <= MaxTurns
    /\ rev = "part_000" => type = "none"
    /\ IF GetApiKey = Null
       THEN SetupRequired
       ELSE LET newUserMsg == Message(MsgId(nextId, "user"), "user", text)
                intermediateMsgs == Append(messages, newUserMsg)
                optimistic == rev = "part_001"
            IN  /\ messages' = intermediateMsgs
                /\ localStorage' = IF optimistic THEN SaveChatStored(user.id, intermediateMsgs)
                                   ELSE localStorage
                /\ calls' = calls
                              \o (IF optimistic THEN SaveChatIssued(user.id, intermediateMsgs, Null)
                                  ELSE <<>>)
                              \o GetMasterPromptIssued([turn |-> nextId])
                /\ view' = IF rev = "part_001" THEN "chat" ELSE view
                /\ isThinking' = TRUE
                /\ turns' = Append(turns,
                        [id |-> nextId, pc |-> "prompt", userId |-> user.id,
                         text |-> text, type |-> type,
                         intermediateMsgs |-> intermediateMsgs,
                         hist |-> IF rev = "part_001" THEN intermediateMsgs ELSE messages,
                         activeDoc |-> ActiveDoc,
                         sys |-> "", aiText |-> "", chunks |-> <<>>])
                /\ nextId' = nextId + 1
                /\ UNCHANGED modalState
    /\ UNCHANGED <<cfgvars, clientvars, db, user, docs, activeDocId, isProcessingFile, alerts,
                   uploads, lessonCtx, sessionKey>>

\* The empty assistant message a turn puts in the transcript before it reads the
\* stream; part_000 marks it isThinking: useThinking, and useThinking is off.
Placeholder(turn) ==
    [Message(MsgId(turn, "model"), "model", "") EXCEPT !.isThinking = (rev = "part_001")]

\* `await api.getMasterPrompt()` resumes (the await is outside the try: a
\* rejection leaves the handler there). Otherwise the turn enters the try, appends its
\* placeholder and starts the stream.
PromptReturns(i, j) ==
    /\ turns[i].pc = "prompt"
    /\ calls[j].pc = "done" /\ calls[j].awaiter = [turn |-> turns[i].id]
    /\ calls' = RemoveAt(calls, j)
    /\ IF calls[j].result = Threw
       THEN /\ turns' = RemoveAt(turns, i)
            /\ UNCHANGED messages
       ELSE /\ turns' = [turns EXCEPT ![i].pc = "stream",
                                      ![i].sys = SystemInstruction(calls[j].result.value,
                                                                   turns[i].activeDoc)]
            /\ messages' = Append(messages, Placeholder(turns[i].id))
    /\ UNCHANGED <<cfgvars, clientvars, localStorage, db, user, docs, activeDocId, view,
                   modalState, isProcessingFile, alerts, uploads, nextId,
                   isThinking, lessonCtx, sessionKey>>

\* `aiText += chunkText`, mutated: the chunk goes in front.
ApplyChunkPrepend(aiText, chunk) == chunk \o aiText

\* `aiText += chunkText` / `fullResponse += chunk`.
ApplyChunk(aiText, chunk) == aiText \o chunk

\* setMessages(prev => prev.map(m => m.id === aiMsgId ? {...m, text, isThinking: false} : m))
WithText(msgs, id, text) ==
    [k \in DOMAIN msgs |->
        IF msgs[k].id = id THEN [msgs[k] EXCEPT !.text = text, !.isThinking = FALSE]
        ELSE msgs[k]]

\* One round of the `for await` loop: the stream yields a chunk. part_001 skips
\* an empty chunk (`if (chunkText)`) and clears isThinking on the first one it applies.
StreamYields(i, chunk) ==
    /\ turns[i].pc = "stream"
    /\ Len(turns[i].chunks) < MaxChunks
    /\ LET applied == rev = "part_000" \/ chunk # ""
           aiText == IF applied THEN ApplyChunk(turns[i].aiText, chunk) ELSE turns[i].aiText
       IN  /\ turns' = [turns EXCEPT ![i].aiText = aiText, ![i].chunks = Append(@, chunk)]
           /\ messages' = IF applied
                          THEN WithText(messages, MsgId(turns[i].id, "model"), aiText)
                          ELSE messages
           /\ isThinking' = IF applied /\ rev = "part_001" THEN FALSE ELSE isThinking
    /\ UNCHANGED <<cfgvars, clientvars, storevars, user, docs, activeDocId, view,
                   modalState, isProcessingFile, alerts, uploads, nextId,
                   lessonCtx, sessionKey>>

\* The stream ends: the final transcript is the one the turn started with plus
\* the assistant message; it replaces the transcript in memory and goes to
\* api.saveChat, not awaited; `finally` clears isThinking.
StreamEnds(i) ==
    /\ turns[i].pc = "stream"
    /\ LET t == turns[i]
           aiMsg == [Message(MsgId(t.id, "model"), "model", t.aiText) EXCEPT
                        !.suggestions = IF rev = "part_001" THEN Suggestions(t.type, t.text)
                                        ELSE <<>>]
           finalMsgs == Append(t.intermediateMsgs, aiMsg)
       IN  /\ messages' = finalMsgs
           /\ lessonCtx' = IF rev = "part_001" /\ IsLesson(t.type, t.text) THEN t.aiText
                           ELSE lessonCtx
           /\ localStorage' = SaveChatStored(t.userId, finalMsgs)
           /\ calls' = calls \o SaveChatIssued(t.userId, finalMsgs, Null)
    /\ isThinking' = FALSE
    /\ turns' = RemoveAt(turns, i)
    /\ UNCHANGED <<cfgvars, clientvars, db, user, docs, activeDocId, view,
                   modalState, isProcessingFile, alerts, uploads, nextId, sessionKey>>

\* The stream throws: `catch` appends the error message to the transcript as it
\* is; `finally` clears isThinking.
StreamThrows(i) ==
    /\ turns[i].pc = "stream"
    /\ messages' = Append(messages,
            [Message(MsgId(turns[i].id, "error"), "model", ERROR_TEXT[rev]) EXCEPT
                !.isError = TRUE])
    /\ isThinking' = FALSE
    /\ turns' = RemoveAt(turns, i)
    /\ UNCHANGED <<cfgvars, clientvars, storevars, user, docs, activeDocId, view,
                   modalState, isProcessingFile, alerts, uploads, nextId,
                   lessonCtx, sessionKey>>

\* onClearChat: `setMessages([]); if (user) api.saveChat(user.id, [])`, the save
\* not awaited. Turns in flight go on.
ClearChat ==
    /\ rev = "part_001"
    /\ messages' = <<>>
    /\ IF user # Null
       THEN /\ localStorage' = SaveChatStored(user.id, <<>>)
            /\ calls' = calls \o SaveChatIssued(user.id, <<>>, Null)
       ELSE UNCHANGED <<localStorage, calls>>
    /\ UNCHANGED <<cfgvars, clientvars, db, user, docs, activeDocId, view, modalState,
                   isProcessingFile, alerts, uploads, nextId,
                   isThinking, lessonCtx, sessionKey, turns>>

\* SpecChat: chat turns, some of them overlapping, with the local store as the backend.
InitChat ==
    /\ rev \in Revisions
    /\ qIn = NoQuotaInput /\ qOut = "none"
    /\ supabase = FALSE
    /\ downTables = {}
    /\ user = [id |-> "u1", role |-> "user", plan |-> "free"]
    /\ InitStores
    /\ InitApp
    /\ InitClient

NextChat ==
    \/ \E send \in Sends : HandleSendMessage(send.text, send.type)
    \/ SaveApiKey
    \/ \E i \in DOMAIN turns : \E j \in DOMAIN calls : PromptReturns(i, j)
    \/ \E i \in DOMAIN turns : \E chunk \in Chunks : StreamYields(i, chunk)
    \/ \E i \in DOMAIN turns : StreamEnds(i)
    \/ \E i \in DOMAIN turns : StreamThrows(i)
    \/ ClearChat

SpecChat == InitChat /\ [][NextChat]_vars

\* SpecChatRemote: chat turns of part_001 with the remote store as the backend;
\* every request of api.getMasterPrompt and api.saveChat is answered in a step of its own.
RemoteSends == {send \in Sends : send.type = "none"}
RemoteChunks == {"Hello"}

InitChatRemote ==
    /\ rev = "part_001"
    /\ qIn = NoQuotaInput /\ qOut = "none"
    /\ supabase = TRUE
    /\ downTables = {}
    /\ user = [id |-> "u1", role |-> "user", plan |-> "free"]
    /\ InitStores
    /\ InitApp
    /\ InitClient

StoreAnswers ==
    \/ \E i \in DOMAIN calls : GetMasterPromptSelect(i)
    \/ \E i \in DOMAIN calls : SaveChatSelect(i)
    \/ \E i \in DOMAIN calls : SaveChatUpdate(i)
    \/ \E i \in DOMAIN calls : SaveChatInsert(i)

PromptResumes == \E i \in DOMAIN turns : \E j \in DOMAIN calls : PromptReturns(i, j)

StreamTerminates == \E i \in DOMAIN turns : StreamEnds(i) \/ StreamThrows(i)

NextChatRemote ==
    \/ \E send \in RemoteSends : HandleSendMessage(send.text, send.type)
    \/ SaveApiKey
    \/ PromptResumes
    \/ \E i \in DOMAIN turns : \E chunk \in RemoteChunks : StreamYields(i, chunk)
    \/ \E i \in DOMAIN turns : StreamEnds(i)
    \/ \E i \in DOMAIN turns : StreamThrows(i)
    \/ \E i \in DOMAIN calls : GetMasterPromptSelect(i)
    \/ \E i \in DOMAIN calls : SaveChatSelect(i)
    \/ \E i \in DOMAIN calls : SaveChatUpdate(i)
    \/ \E i \in DOMAIN calls : SaveChatInsert(i)

SpecChatRemote == InitChatRemote /\ [][NextChatRemote]_vars

\* SpecChatLive: the same, where the remote store answers every request, an
\* awaiting handler resumes once its call has settled, and every stream ends or fails.
SpecChatLive ==
    /\ InitChatRemote /\ [][NextChatRemote]_vars
    /\ WF_vars(StoreAnswers)
    /\ WF_vars(PromptResumes)
    /\ WF_vars(StreamTerminates)

\* SpecContext: chat turns of part_001 grounded on a document, with the local store.
\* Text blocks of 10, 100, 1000, 10000 and 30000 characters.
Chars10 == "0123456789"
Chars100 == Chars10 \o Chars10 \o Chars10 \o Chars10 \o Chars10
                \o Chars10 \o Chars10 \o Chars10 \o Chars10 \o Chars10
Chars1000 == Chars100 \o Chars100 \o Chars100 \o Chars100 \o Chars100
                \o Chars100 \o Chars100 \o Chars100 \o Chars100 \o Chars100
Chars10000 == Chars1000 \o Chars1000 \o Chars1000 \o Chars1000 \o Chars1000
                \o Chars1000 \o Chars1000 \o Chars1000 \o Chars1000 \o Chars1000
Chars30000 == Chars10000 \o Chars10000 \o Chars10000

\* The grounding documents: a short one, one of exactly MaxContextChars
\* characters, one a character longer, and one longer still with its own first
\* and last characters.
GroundingDoc(id, name, content) ==
    [id |-> id, user_id |-> "u1", name |-> name, type |-> "pdf", content |-> content,
     size |-> Len(content)]

GroundingDocs ==
    <<GroundingDoc("d1", "short.pdf", "text of A"),
      GroundingDoc("d2", "exact.pdf", Chars30000),
      GroundingDoc("d3", "over.pdf", Chars30000 \o "Z"),
      GroundingDoc("d4", "long.pdf", "A" \o Chars30000 \o Chars10 \o "Z")>>

\* The sidebar's document button: setActiveDocId(doc.id); setView('chat').
SelectDoc(k) ==
    /\ activeDocId # [id |-> docs[k].id]
    /\ activeDocId' = [id |-> docs[k].id]
    /\ view' = "chat"
    /\ UNCHANGED <<cfgvars, clientvars, storevars, chatvars, user, docs, modalState,
                   isProcessingFile, alerts, uploads, nextId>>

\* onClearContext: setActiveDocId(null).
ClearContext ==
    /\ activeDocId # Null
    /\ activeDocId' = Null
    /\ UNCHANGED <<cfgvars, clientvars, storevars, chatvars, user, docs, view, modalState,
                   isProcessingFile, alerts, uploads, nextId>>

InitContext ==
    /\ rev = "part_001"
    /\ qIn = NoQuotaInput /\ qOut = "none"
    /\ supabase = FALSE
    /\ downTables = {}
    /\ user = [id |-> "u1", role |-> "user", plan |-> "pro"]
    /\ localStorage = EmptyLocalStorage /\ db = EmptyDb /\ calls = <<>>
    /\ docs = GroundingDocs
    /\ activeDocId = Null
    /\ view = "dashboard"
    /\ modalState = NoModal
    /\ isProcessingFile = FALSE
    /\ alerts = <<>>
    /\ uploads = <<>>
    /\ nextId = 1
    /\ messages = <<>>
    /\ isThinking = FALSE
    /\ lessonCtx = ""
    /\ sessionKey = Null
    /\ turns = <<>>
    /\ InitClient

NextContext ==
    \/ \E send \in RemoteSends : HandleSendMessage(send.text, send.type)
    \/ SaveApiKey
    \/ \E k \in DOMAIN docs : SelectDoc(k)
    \/ ClearContext
    \/ PromptResumes
    \/ \E i \in DOMAIN turns : \E chunk \in RemoteChunks : StreamYields(i, chunk)
    \/ \E i \in DOMAIN turns : StreamEnds(i)
    \/ \E i \in DOMAIN turns : StreamThrows(i)

SpecContext == InitContext /\ [][NextContext]_vars

(***************************************************************************)
(* Accounts: api.getProfile, handleAuth, PricingModal, AdminSettingsModal  *)
(***************************************************************************)
\* Total number of alerts shown in the account scenarios.
MaxAccountAlerts == 3

\* The profile api.getProfile makes up when the lookup of the profiles row fails.
DefaultProfile(id) == [id |-> id, role |-> "user", plan |-> "free"]

\* api.getProfile, mutated: a failed lookup of the profiles row gives null.
GetProfileResultNullOnError(authUser, outcome) ==
    IF ~supabase
    THEN ParsedItemOr(GlobalKey(STORAGE_KEYS.SESSION), Null)
    ELSE IF outcome = "throw" \/ authUser = Null THEN Null
    ELSE LET data == SingleRow(RowsEq("profiles", "id", authUser.id), outcome)
         IN  data

\* What api.getProfile() returns. Local: the parsed session item or null.
\* Remote: null without an authenticated user or on an exception; the row of
\* the profiles table; the default profile when .single() reports an error
\* (a failed request, or not exactly one row).
GetProfileResult(authUser, outcome) ==
    IF ~supabase
    THEN ParsedItemOr(GlobalKey(STORAGE_KEYS.SESSION), Null)
    ELSE IF outcome = "throw" \/ authUser = Null THEN Null
    ELSE LET data == SingleRow(RowsEq("profiles", "id", authUser.id), outcome)
         IN  IF data = Null THEN DefaultProfile(authUser.id)
             ELSE [id |-> data.id, role |-> data.role, plan |-> data.plan]

\* api.saveUserLocal(user).
SaveUserLocal(profile) ==
    [localStorage EXCEPT ![GlobalKey(STORAGE_KEYS.SESSION)] = JSONstringify(profile)]

\* setDocs(await api.getDocs(profile.id)); setMessages(await api.getChat(profile.id)):
\* a rejection of the first leaves both lists, one of the second the transcript.
LoadsLists(profile) ==
    IF profile = Null THEN UNCHANGED <<docs, messages>>
    ELSE \E d \in {GetDocsResult(profile.id, o) : o \in Outcomes("documents")} :
         \E m \in {GetChatResult(profile.id, o) : o \in Outcomes("chats")} :
            /\ docs' = IF d = Threw THEN docs ELSE d.value
            /\ messages' = IF d = Threw \/ m = Threw THEN messages ELSE m.value

\* window.location.reload() with the local store: the App state starts anew and
\* the mount effect loads the profile of the session item and its lists.
ReloadLocal(ls) ==
    LET item == ls[GlobalKey(STORAGE_KEYS.SESSION)]
        profile == IF item # Null THEN JSONparse(item) ELSE Null
    IN  /\ user' = profile
        /\ docs' = IF profile = Null THEN <<>>
                   ELSE IF ls[Key(STORAGE_KEYS.DOCS_PREFIX, profile.id)] # Null
                        THEN JSONparse(ls[Key(STORAGE_KEYS.DOCS_PREFIX, profile.id)]) ELSE <<>>
        /\ messages' = IF profile = Null THEN <<>>
                       ELSE IF ls[Key(STORAGE_KEYS.CHAT_PREFIX, profile.id)] # Null
                            THEN JSONparse(ls[Key(STORAGE_KEYS.CHAT_PREFIX, profile.id)])
                            ELSE <<>>
        /\ modalState' = NoModal
        /\ activeDocId' = Null
        /\ view' = "dashboard"

\* window.location.reload() with the remote store: the App state starts anew;
\* the profile comes with the next auth state change.
ReloadRemote ==
    /\ user' = Null
    /\ docs' = <<>>
    /\ messages' = <<>>
    /\ modalState' = NoModal
    /\ activeDocId' = Null
    /\ view' = "dashboard"

\* No modal lies over the sidebar.
SidebarReachable == ~modalState.pricing /\ ~modalState.settings /\ ~modalState.apiKey

\* handleAuth, the sign-in form shown while no user is set. Local: a demo
\* profile is made up, stored as the session and set. Remote: the sign-in
\* request; a failure is alerted, a success reaches the App through the auth listener.
HandleAuth ==
    /\ user = Null
    /\ Len(alerts) < MaxAccountAlerts
    /\ IF ~supabase
       THEN LET u == [id |-> LOCAL_USER_ID, role |-> "user", plan |-> "free"] IN
            /\ localStorage' = SaveUserLocal(u)
            /\ user' = u
            /\ alerts' = Append(alerts, "logged-in-demo")
       ELSE /\ alerts' = Append(alerts, "auth-error")
            /\ UNCHANGED <<localStorage, user>>
    /\ UNCHANGED <<cfgvars, clientvars, chatvars, db, calls, docs, activeDocId, view,
                   modalState, isProcessingFile, uploads, nextId>>

\* supabase.auth.onAuthStateChange: with a session the profile is fetched and
\* set and its lists are loaded; without one the user is unset.
OnAuthStateChange(session) ==
    /\ supabase
    /\ IF session = Null
       THEN /\ user' = Null
            /\ UNCHANGED <<docs, messages>>
       ELSE \E profile \in {GetProfileResult(session, o) : o \in Outcomes("profiles")} :
                /\ user' = profile
                /\ LoadsLists(profile)
    /\ UNCHANGED <<cfgvars, clientvars, storevars, activeDocId, view, modalState,
                   isProcessingFile, alerts, uploads, nextId,
                   isThinking, lessonCtx, sessionKey, turns>>

\* The sign-out button of the sidebar. Local: the session item is removed and
\* the page reloads. Remote: supabase.auth.signOut(), and the listener unsets the user.
SignOut ==
    /\ user # Null
    /\ SidebarReachable
    /\ IF ~supabase
       THEN LET ls == [localStorage EXCEPT ![GlobalKey(STORAGE_KEYS.SESSION)] = Null] IN
            /\ localStorage' = ls
            /\ ReloadLocal(ls)
       ELSE /\ user' = Null
            /\ UNCHANGED <<localStorage, docs, messages, modalState, activeDocId, view>>
    /\ UNCHANGED <<cfgvars, clientvars, db, calls, isProcessingFile, alerts, uploads, nextId,
                   isThinking, lessonCtx, sessionKey, turns>>

\* The plan button of the sidebar opens the pricing modal; its close button closes it.
OpenPricing ==
    /\ user # Null
    /\ SidebarReachable
    /\ modalState' = [modalState EXCEPT !.pricing = TRUE]
    /\ UNCHANGED <<cfgvars, clientvars, storevars, chatvars, user, docs, activeDocId, view,
                   isProcessingFile, alerts, uploads, nextId>>

ClosePricing ==
    /\ modalState.pricing
    /\ modalState' = [modalState EXCEPT !.pricing = FALSE]
    /\ UNCHANGED <<cfgvars, clientvars, storevars, chatvars, user, docs, activeDocId, view,
                   isProcessingFile, alerts, uploads, nextId>>

\* update({ plan }).eq('id', user.id) on the profiles table.
UpdatePlanRows(id, plan) ==
    [db EXCEPT !.profiles = [k \in DOMAIN @ |->
        IF @[k].id = id THEN [@[k] EXCEPT !.plan = plan] ELSE @[k]]]

UpgradeAlert == [free |-> "upgraded-free", pro |-> "upgraded-pro", campus |-> "upgraded-campus"]

\* PricingModal.handleUpgrade(plan). Local: the session item gets the plan, an
\* alert, a reload. Remote: the profiles row is updated; without an error an
\* alert and a reload, with one nothing.
HandleUpgrade(plan) ==
    /\ user # Null
    /\ modalState.pricing
    /\ Len(alerts) < MaxAccountAlerts
    /\ IF ~supabase
       THEN LET ls == SaveUserLocal([user EXCEPT !.plan = plan]) IN
            /\ localStorage' = ls
            /\ alerts' = Append(alerts, UpgradeAlert[plan])
            /\ ReloadLocal(ls)
            /\ UNCHANGED db
       ELSE \E outcome \in Outcomes("profiles") :
            IF outcome = "ok"
            THEN /\ db' = UpdatePlanRows(user.id, plan)
                 /\ alerts' = Append(alerts, UpgradeAlert[plan])
                 /\ ReloadRemote
                 /\ UNCHANGED localStorage
            ELSE UNCHANGED <<db, alerts, localStorage, user, docs, messages, modalState,
                             activeDocId, view>>
    /\ UNCHANGED <<cfgvars, clientvars, calls, isProcessingFile, uploads, nextId,
                   isThinking, lessonCtx, sessionKey, turns>>

\* The Admin Settings button, rendered when user.role === 'admin'.
OpenSettings ==
    /\ user # Null
    /\ user.role = "admin"
    /\ SidebarReachable
    /\ modalState' = [modalState EXCEPT !.settings = TRUE]
    /\ UNCHANGED <<cfgvars, clientvars, storevars, chatvars, user, docs, activeDocId, view,
                   isProcessingFile, alerts, uploads, nextId>>

\* The close button of the admin console.
CloseSettings ==
    /\ user # Null
    /\ modalState.settings
    /\ modalState' = [modalState EXCEPT !.settings = FALSE]
    /\ UNCHANGED <<cfgvars, clientvars, storevars, chatvars, user, docs, activeDocId, view,
                   isProcessingFile, alerts, uploads, nextId>>

\* AdminSettingsModal.handleSave, up to `await api.setMasterPrompt(prompt)`.
\* The modal is rendered when a user is set and modalState.settings holds.
AdminHandleSave(prompt) ==
    /\ user # Null
    /\ modalState.settings
    /\ calls = <<>>
    /\ Len(alerts) < MaxAccountAlerts
    /\ SetMasterPromptCall(prompt, [settings |-> user.id])
    /\ UNCHANGED <<cfgvars, clientvars, chatvars, user, docs, activeDocId, view, modalState,
                   isProcessingFile, alerts, uploads, nextId>>

\* AdminSettingsModal.handleSave resumes: alert("System Brain Updated!").
AdminSaveReturns(j) ==
    /\ calls[j].op = "setMasterPrompt" /\ calls[j].pc = "done"
    /\ calls' = RemoveAt(calls, j)
    /\ alerts' = Append(alerts, "brain-updated")
    /\ UNCHANGED <<cfgvars, clientvars, chatvars, localStorage, db, user, docs, activeDocId,
                   view, modalState, isProcessingFile, uploads, nextId>>

\* The rows of the profiles table: an administrator and a teacher.
ProfileRows ==
    <<[id |-> "u1", role |-> "admin", plan |-> "pro"],
      [id |-> "u2", role |-> "user", plan |-> "free"]>>

\* SpecAccount: signing in and out, upgrading, and the admin console.
InitAccount ==
    /\ rev = "part_001"
    /\ qIn = NoQuotaInput /\ qOut = "none"
    /\ supabase \in BOOLEAN
    /\ downTables = {}
    /\ user = Null
    /\ localStorage = EmptyLocalStorage
    /\ db = IF supabase THEN [EmptyDb EXCEPT !.profiles = ProfileRows] ELSE EmptyDb
    /\ calls = <<>>
    /\ InitApp
    /\ InitClient

NextAccount ==
    \/ HandleAuth
    \/ \E u \in Users : OnAuthStateChange([id |-> u])
    \/ OnAuthStateChange(Null)
    \/ SignOut
    \/ OpenPricing
    \/ ClosePricing
    \/ \E plan \in PlanType : HandleUpgrade(plan)
    \/ OpenSettings
    \/ CloseSettings
    \/ \E prompt \in Prompts : AdminHandleSave(prompt)
    \/ \E j \in DOMAIN calls : AdminSaveReturns(j)
    \/ \E i \in DOMAIN calls : SetMasterPromptSelect(i)
    \/ \E i \in DOMAIN calls : SetMasterPromptWrite(i)

SpecAccount == InitAccount /\ [][NextAccount]_vars

(***************************************************************************)
(* C1: the document-count check                                            *)
(***************************************************************************)
\* The check is passed by a drawn input: no count denial, and the upload goes
\* on unless part_000's size test stopped it first.
SizeTestPasses == rev = "part_001" \/ qIn.size <= MaxSizeBytes(qIn.plan)

UploadInvoked == nextId' = nextId + 1

\* C2: in part_001 with plan free, once a document is in the list, an upload is
\* denied with count-exceeded and changes nothing: no extraction starts, no
\* api.saveDoc call is made, and the in-memory list, both stores and what
\* api.getDocs returns are as before (so a list holding exactly A still does).
C2_DeniedUploadChangesNothing ==
    [][(rev = "part_001" /\ user.plan = "free" /\ Len(docs) >= 1 /\ UploadInvoked) =>
          /\ alerts' = Append(alerts, "count-exceeded")
          /\ uploads' = uploads
          /\ calls' = calls
          /\ docs' = docs
          /\ localStorage' = localStorage
          /\ db' = db
          /\ GetDocsResult(user.id, "ok")' = GetDocsResult(user.id, "ok")]_vars

\* C2 witness: after A was uploaded and stored, B was denied; the in-memory list
\* and the list api.getDocs returns both hold exactly A.
C2_Witness ==
    /\ rev = "part_001" /\ user.plan = "free"
    /\ nextId = 3
    /\ alerts = <<"count-exceeded">>
    /\ Len(docs) = 1 /\ docs[1].name = "A.pdf"
    /\ GetDocsResult(user.id, "ok") = Resolved(docs)
    /\ uploads = <<>> /\ calls = <<>>

\* C3 (as stated): a file larger than the plan's size limit is denied, so no
\* document in memory and no stored document is larger than
\* maxSizeMB * 1024 * 1024 bytes; and every denial is a count-exceeded or a
\* size-exceeded one.
C3_AsStated ==
    /\ \A i \in DOMAIN docs : docs[i].size <= MaxSizeBytes(user.plan)
    /\ \A i \in DOMAIN db.documents : db.documents[i].size <= MaxSizeBytes(user.plan)
    /\ \A u \in Users : \A i \in DOMAIN ParsedItemOr(Key(STORAGE_KEYS.DOCS_PREFIX, u), <<>>) :
            ParsedItemOr(Key(STORAGE_KEYS.DOCS_PREFIX, u), <<>>)[i].size <= MaxSizeBytes(user.plan)
    /\ \A k \in DOMAIN alerts : alerts[k] \in {"count-exceeded", "size-exceeded", "parse-error"}

(***************************************************************************)
(* C4 - C7: the repository contract                                        *)
(***************************************************************************)
\* The call that returned last, when the caller has not made another one since.
HasLastReturn == rets # <<>> /\ calls = <<>> /\ rets[Len(rets)].n = ncalls
LastReturn == rets[Len(rets)]

\* The caller's last two calls were op1 and then op2, for the same owner.
ThenSameOwner(op1, op2) ==
    /\ Len(rets) = 2
    /\ rets[1].op = op1 /\ rets[2].op = op2
    /\ rets[1].args.userId = rets[2].args.userId

\* C4 (as stated): after api.saveChat(u, M) has completed, api.getChat(u) returns
\* M, in order and content, whatever was stored for u before, with the local
\* and with the remote store as the backend.
C4_AsStated ==
    ThenSameOwner("saveChat", "getChat") => rets[2].result = Resolved(rets[1].args.messages)

\* What the local store holds for a read operation.
LocalValue(op, args) ==
    IF op = "getDocs" THEN ParsedItemOr(Key(STORAGE_KEYS.DOCS_PREFIX, args.userId), <<>>)
    ELSE IF op = "getChat" THEN ParsedItemOr(Key(STORAGE_KEYS.CHAT_PREFIX, args.userId), <<>>)
    ELSE IF op = "getEvents" THEN LocalEvents(args.userId)
    ELSE LET item == localStorage[GlobalKey(MASTER_PROMPT_KEY)]
         IN  OrDefault(item # Null, IF item # Null THEN item.raw ELSE "")

ReadOps == {"getDocs", "getChat", "getEvents", "getMasterPrompt"}

\* C5 (as stated): a read operation whose remote request failed returns the
\* local store's value and does not hand the failure to its caller as an exception.
C5_AsStated ==
    (HasLastReturn /\ LastReturn.op \in ReadOps /\ LastReturn.failed) =>
        /\ LastReturn.result # Threw
        /\ LastReturn.result = Resolved(LocalValue(LastReturn.op, LastReturn.args))

\* The value a write operation was called with is in the local store, in the
\* remote store. An empty transcript counts as stored where none is stored.
InSeq(x, seq) == \E k \in DOMAIN seq : seq[k] = x

WrittenLocally(op, args) ==
    IF op = "saveDoc"
        THEN InSeq(args, ParsedItemOr(Key(STORAGE_KEYS.DOCS_PREFIX, args.user_id), <<>>))
    ELSE IF op = "saveChat"
        THEN ParsedItemOr(Key(STORAGE_KEYS.CHAT_PREFIX, args.userId), <<>>) = args.messages
    ELSE IF op = "saveEvent"
        THEN InSeq(args.event, LocalEvents(args.userId))
    ELSE localStorage[GlobalKey(MASTER_PROMPT_KEY)] = [raw |-> args.prompt]

WrittenRemotely(op, args) ==
    IF op = "saveDoc" THEN InSeq(args, db.documents)
    ELSE IF op = "saveChat"
        THEN \E k \in DOMAIN db.chats :
                db.chats[k].user_id = args.userId /\ db.chats[k].messages = args.messages
    ELSE IF op = "saveEvent" THEN InSeq(EventRow(args.userId, args.event), db.events)
    ELSE \E k \in DOMAIN db.system_settings :
            db.system_settings[k].key = "master_prompt" /\ db.system_settings[k].value = args.prompt

WriteOps == {"saveDoc", "saveChat", "saveEvent", "setMasterPrompt"}

\* C6 (as stated): when a remote request of a write operation failed, the written
\* value is in the local store, so that once the call has completed it is in at
\* least one of the two stores.
C6_AsStated ==
    (HasLastReturn /\ LastReturn.op \in WriteOps /\ LastReturn.failed) =>
        \/ WrittenLocally(LastReturn.op, LastReturn.args)
        \/ WrittenRemotely(LastReturn.op, LastReturn.args)

\* C7: with the remote store configured and every call on the events table
\* failing, api.getEvents(u) does not throw and returns u's locally stored events,
\* and the api.getEvents(u) that follows a completed api.saveEvent(u, e) returns
\* a list that contains e.
C7_EventsFallback ==
    (supabase /\ "events" \in downTables) =>
        /\ (HasLastReturn /\ LastReturn.op = "getEvents") =>
                /\ LastReturn.failed
                /\ LastReturn.result # Threw
                /\ LastReturn.result = Resolved(LocalEvents(LastReturn.args.userId))
        /\ ThenSameOwner("saveEvent", "getEvents") =>
                /\ rets[2].result # Threw
                /\ InSeq(rets[1].args.event, rets[2].result.value)

\* C7 witness: the events table is down, e was saved for u1 and the next
\* api.getEvents("u1") returned the list holding e.
C7_Witness ==
    /\ supabase /\ "events" \in downTables
    /\ ThenSameOwner("saveEvent", "getEvents")
    /\ rets[1].failed /\ rets[2].failed
    /\ rets[2].result = Resolved(<<rets[1].args.event>>)

(***************************************************************************)
(* C8 - C10: the chat turn and the transcript                              *)
(***************************************************************************)
\* c1 + ... + cn.
RECURSIVE Concat(_)
Concat(chunks) == IF chunks = <<>> THEN "" ELSE chunks[1] \o Concat(Tail(chunks))

Last(seq) == seq[Len(seq)]

\* The transcripts api.saveChat was called with that are stored or on their way
\* to the remote store.
SavedTranscripts ==
    {JSONparse(localStorage[Key(STORAGE_KEYS.CHAT_PREFIX, u)]) :
        u \in {v \in Users : localStorage[Key(STORAGE_KEYS.CHAT_PREFIX, v)] # Null}}
    \cup {calls[k].args.messages : k \in {j \in DOMAIN calls : calls[j].op = "saveChat"}}

\* While a turn reads its stream, its text is the chunks seen so far, in order.
TextIsChunksSeen ==
    \A i \in DOMAIN turns : turns[i].pc = "stream" =>
        turns[i].aiText = Concat(turns[i].chunks)

\* Two turns that have seen the same chunks hold the same text.
ReplayAgrees ==
    \A i, j \in DOMAIN turns :
        (turns[i].pc = "stream" /\ turns[j].pc = "stream" /\ turns[i].chunks = turns[j].chunks)
            => turns[i].aiText = turns[j].aiText

\* The transcript a turn saves when its stream ends is the one it started with
\* plus the assistant message, whose text is the chunks in arrival order.
SavedReplyIsChunks(i) ==
    \E M \in SavedTranscripts' :
        /\ M = messages'
        /\ SubSeq(M, 1, Len(M) - 1) = turns[i].intermediateMsgs
        /\ Last(M).id = MsgId(turns[i].id, "model")
        /\ Last(M).role = "model"
        /\ Last(M).text = Concat(turns[i].chunks)

\* C8: when the stream of a turn yields chunks c1..cn and then ends, the assistant
\* message saved with the transcript has the text c1 + ... + cn, in arrival order,
\* no chunk repeated or dropped; and the same chunk sequence applied to another
\* fresh placeholder gives the same text.
C8_SavedTextIsChunksInOrder ==
    /\ []TextIsChunksSeen
    /\ []ReplayAgrees
    /\ [][\A i \in DOMAIN turns : StreamEnds(i) => SavedReplyIsChunks(i)]_vars

\* C8 witness: two turns in a row each saw "Hello" and then " world" and ended;
\* the stored transcript is the one in memory and holds "Hello world" twice.
C8_Witness ==
    /\ turns = <<>>
    /\ Len(messages) = 4
    /\ messages[2].id = MsgId(1, "model") /\ messages[2].text = "Hello world"
    /\ messages[4].id = MsgId(2, "model") /\ messages[4].text = "Hello world"
    /\ SavedTranscripts = {messages}

\* C9 (as stated): once a turn whose stream failed has ended, the transcript holds
\* the turn's user message and, after it, one assistant message of the turn, the
\* error message with isError and the fixed text; the turn's placeholder with the
\* partial text is not in the transcript.
C9_AsStated ==
    \A k \in DOMAIN messages : messages[k].id.part = "error" =>
        /\ messages[k].isError /\ messages[k].text = ERROR_TEXT[rev]
        /\ \E j \in 1..(k - 1) : messages[j].id = MsgId(messages[k].id.turn, "user")
        /\ \A j \in DOMAIN messages : messages[j].id # MsgId(messages[k].id.turn, "model")

\* The turns whose error message is in a transcript.
FailedIn(M) == {M[k].id.turn : k \in {j \in DOMAIN M : M[j].id.part = "error"}}

\* C10 (as stated): no transcript passed to api.saveChat holds an isError message
\* or the assistant text of a failed turn.
C10_AsStated ==
    \A M \in SavedTranscripts : \A k \in DOMAIN M :
        /\ ~M[k].isError
        /\ M[k].id.part = "model" => M[k].id.turn \notin FailedIn(M) \cup FailedIn(messages)

(***************************************************************************)
(* C11 - C12: the history handed to the completion service                 *)
(***************************************************************************)
\* The turns whose completion request was made: api.generateAIStream was called
\* with the turn's hist and text.
Requested == {i \in DOMAIN turns : turns[i].pc = "stream"}

\* C11 (as stated): the history handed to the completion service never holds a
\* message whose isError flag is true.
C11_AsStated ==
    \A i \in Requested : \A k \in DOMAIN turns[i].hist : ~turns[i].hist[k].isError

\* The transcript as it was when the turn was sent, without the turn's user message.
PriorTranscript(t) == SubSeq(t.intermediateMsgs, 1, Len(t.intermediateMsgs) - 1)

\* C12 (as stated): the history handed to the completion service is the
\* transcript as it was before the turn, without the turn's own user message, so
\* that the request contents are that transcript and then the user text, once.
C12_AsStated ==
    \A i \in Requested :
        /\ turns[i].hist = PriorTranscript(turns[i])
        /\ \A k \in DOMAIN turns[i].hist : turns[i].hist[k].id # MsgId(turns[i].id, "user")
        /\ Contents(turns[i].hist, turns[i].text)
             = Contents(PriorTranscript(turns[i]), turns[i].text)

(***************************************************************************)
(* C13 - C14: the API key precondition and the suggestions                 *)
(***************************************************************************)
\* A step of handleSendMessage, from any of its call sites.
SendStep == \E send \in Sends : HandleSendMessage(send.text, send.type)

\* C13: without an API key handleSendMessage opens the API-key modal and does
\* nothing else: the transcript is as it was, api.saveChat is not called (nothing
\* is stored, no request is issued), no turn and no completion request is started,
\* and isThinking is as it was.
C13_NoKeyOnlyOpensModal ==
    [][(GetApiKey = Null /\ SendStep) =>
            /\ modalState'.apiKey
            /\ messages' = messages
            /\ localStorage' = localStorage /\ db' = db /\ calls' = calls
            /\ turns' = turns
            /\ isThinking' = isThinking /\ ~isThinking']_vars

\* C13 witness: a send without a key has opened the modal; nothing else happened.
C13_Witness ==
    /\ GetApiKey = Null /\ modalState.apiKey
    /\ messages = <<>> /\ turns = <<>> /\ calls = <<>> /\ ~isThinking
    /\ SavedTranscripts = {}

\* The rule table: the actions of the suggestions, by intent tag.
SuggestedActions ==
    [lesson |-> <<"quiz", "rubric">>, quiz |-> <<"chat">>, none |-> <<>>]

\* C14 (as stated): the suggestions on the assistant message of a successful
\* turn are given by the turn's intent tag alone: quiz and rubric for lesson, the
\* one "Explain Answer Key" chat suggestion for quiz whatever the prompt text,
\* none for a turn without a tag.
C14_AsStated ==
    [][\A i \in DOMAIN turns : (rev = "part_001" /\ StreamEnds(i)) =>
            LET sug == Last(messages').suggestions IN
            /\ [k \in DOMAIN sug |-> sug[k].action] = SuggestedActions[turns[i].type]
            /\ turns[i].type = "quiz" => sug[1].label = "Explain Answer Key"]_vars


(***************************************************************************)
(* C15: when the transcript is handed to api.saveChat                      *)
(***************************************************************************)
\* The chat item of some owner is rewritten, or a saveChat request is issued.
SaveChatStarted ==
    \/ \E u \in Users : localStorage'[Key(STORAGE_KEYS.CHAT_PREFIX, u)] #
                        localStorage[Key(STORAGE_KEYS.CHAT_PREFIX, u)]
    \/ /\ Len(calls') > Len(calls)
       /\ \E k \in DOMAIN calls' : k > Len(calls) /\ calls'[k].op = "saveChat"

\* A saveChat request has not been answered yet.
SaveChatInFlight == \E k \in DOMAIN calls : calls[k].op = "saveChat" /\ calls[k].pc # "done"

\* C15 (as stated): api.saveChat is called only once the completion stream of
\* the transcript is exhausted or has failed: a step that starts a save leaves
\* no turn of the conversation in flight, and no save is in flight while a turn
\* reads its stream.
C15_AsStated ==
    /\ [][SaveChatStarted => turns' = <<>>]_vars
    /\ [](\A i \in DOMAIN turns : turns[i].pc = "stream" => ~SaveChatInFlight)

(***************************************************************************)
(* C17: one completion at a time                                           *)
(***************************************************************************)
\* C17 (as stated): from the start of a turn until its stream has ended or
\* failed the send affordances are disabled (isThinking), so at most one turn
\* of the conversation is in flight.
C17_AsStated ==
    rev = "part_001" => /\ Len(turns) <= 1
                        /\ turns # <<>> => isThinking

(***************************************************************************)
(* C19: the transcript only grows                                          *)
(***************************************************************************)
\* The messages of `old` are those at the same positions of `new`.
KeepsMessages(old, new) ==
    /\ Len(new) >= Len(old)
    /\ \A k \in DOMAIN old : new[k].id = old[k].id

\* C19 (as stated): every step of the controller leaves the messages that were
\* in the transcript in place and in order; the step of clear chat, which
\* empties the transcript, is set aside.
C19_AsStated ==
    [][ClearChat \/ KeepsMessages(messages, messages')]_vars


(***************************************************************************)
(* C20: owner isolation                                                    *)
(***************************************************************************)
\* The owners on whose behalf a step of the repository acts: the owner the
\* caller passes to the call it makes, or the owner of the call whose request
\* the remote store answers.
StepOwners ==
    IF ncalls' # ncalls THEN {Last(calls').args.userId}
    ELSE IF calls # <<>> /\ calls[1].pc # "done" THEN {calls[1].args.userId}
    ELSE {}

\* What api.getEvents(v) returns, when its request succeeds and when it fails.
EventsRead(v) == <<GetEventsResult(v, "ok"), GetEventsResult(v, "error")>>

\* C20 (as stated): a write or a delete issued for owner u, api.deleteEvent(u, id)
\* included, never changes what api.getEvents(v) returns for another owner v.
C20_AsStated ==
    [][\A v \in Users \ StepOwners : EventsRead(v)' = EventsRead(v)]_vars


(***************************************************************************)
(* C16, C18: the end of a turn against the remote store                    *)
(***************************************************************************)
\* No turn is in flight and the send button is enabled.
Idle == turns = <<>> /\ ~isThinking

\* C16 (as stated): whenever the controller is Idle and the transcript ends with
\* the assistant message of a successful turn, api.saveChat of that transcript
\* has completed: no save is in flight and the stored chat of the user is the
\* transcript, its last message carrying the suggestions.
C16_AsStated ==
    (Idle /\ messages # <<>> /\ Last(messages).id.part = "model") =>
        /\ ~SaveChatInFlight
        /\ GetChatResult(user.id, "ok") = Resolved(messages)

\* C18 (as stated): every turn comes back to Idle: whenever isThinking is set it
\* is cleared again, also when a request of api.getMasterPrompt or api.saveChat
\* fails against the remote store.
C18_AsStated == isThinking ~> ~isThinking


(***************************************************************************)
(* C21: one transcript per user                                            *)
(***************************************************************************)
\* C21 (as stated): the chats table of the remote store holds at most one row
\* per user_id, whatever api.saveChat calls were made and however they overlap.
C21_AsStated ==
    \A u \in Users : Len(RowsEq("chats", "user_id", u)) <= 1


(***************************************************************************)
(* C23: a failed extraction creates no document                            *)
(***************************************************************************)
\* The step is the catch block of handleFileUpload: it shows the parse alert.
ParseAlertShown == alerts' = Append(alerts, "parse-error")

\* C23: when text extraction fails no document is created: the step that shows
\* the parse alert makes no api.saveDoc call and leaves the in-memory list, the
\* active document, both stores and what api.getDocs returns as they were.
C23_FailedExtractionCreatesNothing ==
    [][ParseAlertShown =>
          /\ docs' = docs
          /\ activeDocId' = activeDocId
          /\ calls' = calls
          /\ localStorage' = localStorage
          /\ db' = db
          /\ GetDocsResult(user.id, "ok")' = GetDocsResult(user.id, "ok")]_vars

\* C23 witness: with one document listed and stored, a second upload has ended
\* in the parse alert and the list still holds that one document.
C23_Witness ==
    /\ alerts # <<>> /\ Last(alerts) = "parse-error"
    /\ uploads = <<>> /\ calls = <<>>
    /\ Len(docs) = 1
    /\ GetDocsResult(user.id, "ok") = Resolved(docs)


(***************************************************************************)
(* C28: the document quota under overlapping uploads                       *)
(***************************************************************************)
\* No handleFileUpload invocation and no API call is in flight.
UploadsSettled == uploads = <<>> /\ calls = <<>>

\* C28 (as stated): once every upload has settled, api.getDocs returns at most
\* PLAN_LIMITS[plan].maxDocs documents for the user, and the in-memory list is
\* that list. Stated for the local store, where no request can fail.
C28_AsStated ==
    (~supabase /\ UploadsSettled) =>
        LET persisted == GetDocsResult(user.id, "ok").value IN
        /\ Len(persisted) <= PLAN_LIMITS[user.plan].maxDocs
        /\ docs = persisted


(***************************************************************************)
(* C29: the events of a user across failures of the remote store           *)
(***************************************************************************)
\* C29 (as stated): whatever requests of the remote store fail or succeed, the
\* api.getEvents(u) that follows a completed api.saveEvent(u, e) returns e, and
\* the api.getEvents(u) that follows a completed api.deleteEvent(u, id) returns
\* no event of that id.
C29_AsStated ==
    /\ ThenSameOwner("saveEvent", "getEvents") =>
            InSeq(rets[1].args.event, rets[2].result.value)
    /\ ThenSameOwner("deleteEvent", "getEvents") =>
            \A k \in DOMAIN rets[2].result.value :
                rets[2].result.value[k].id # rets[1].args.eventId


(***************************************************************************)
(* C27: the persisted transcript after a turn                              *)
(***************************************************************************)
\* C27 (as stated): after a successful turn, once every api.saveChat call has
\* settled, the persisted transcript of the user is the final in-memory
\* transcript; the optimistic save is never the write that remains.
C27_AsStated ==
    (Idle /\ ~SaveChatInFlight /\ messages # <<>> /\ Last(messages).id.part = "model") =>
        GetChatResult(user.id, "ok") = Resolved(messages)


(***************************************************************************)
(* C30: clear chat and the turns in flight                                 *)
(***************************************************************************)
\* The transcript was cleared while the turns now in flight were running: each
\* of them appended its user message when it started, and only onClearChat
\* empties the transcript.
ClearedInFlight == turns # <<>> /\ messages = <<>>

\* No message of the list is a user message.
NoUserMessage(msgs) == \A k \in DOMAIN msgs : msgs[k].id.part # "user"

\* C30 (as stated): after a clear, the end of a turn that was in flight brings
\* no message created before the clear back: every user message existing then
\* was created before the clear, so none is in the in-memory transcript or in
\* the persisted one after the step.
C30_AsStated ==
    [][\A i \in DOMAIN turns : (ClearedInFlight /\ StreamEnds(i)) =>
            /\ NoUserMessage(messages')
            /\ NoUserMessage(GetChatResult(user.id, "ok").value')]_vars


(***************************************************************************)
(* C24: the document segment of the system instruction                     *)
(***************************************************************************)
\* The number of characters of the document that go into the instruction.
SegmentLength(doc) ==
    IF Len(doc.content) > MaxContextChars THEN MaxContextChars ELSE Len(doc.content)

\* The system instruction is the master prompt, the context header, `segment`
\* and the format line, in that order and nothing else.
HoldsSegment(sys, master, doc, segment) ==
    LET before == master \o ContextHeader(doc)
        after == "\n\nFORMAT: " \o FORMAT_OPTIONS.auto
    IN  /\ Len(sys) = Len(before) + Len(segment) + Len(after)
        /\ SubSeq(sys, 1, Len(before)) = before
        /\ SubSeq(sys, Len(before) + 1, Len(before) + Len(segment)) = segment
        /\ SubSeq(sys, Len(before) + Len(segment) + 1, Len(sys)) = after

\* C24: when a turn grounded on a document assembles its system instruction,
\* the document segment is the first 30,000 characters of the content when the
\* content is longer than that, and the whole content otherwise.
C24_SegmentIsFirst30000 ==
    [][\A i \in DOMAIN turns : \A j \in DOMAIN calls :
        (PromptReturns(i, j) /\ turns[i].activeDoc # Null) =>
            LET doc == turns[i].activeDoc
                segment == SubSeq(doc.content, 1, SegmentLength(doc))
            IN  /\ Len(doc.content) > MaxContextChars => Len(segment) = 30000
                /\ Len(doc.content) <= MaxContextChars => segment = doc.content
                /\ HoldsSegment(turns'[i].sys, calls[j].result.value, doc, segment)]_vars

\* C24 witness: a turn grounded on the longest document reads its stream with
\* an instruction of the master prompt, the header, 30,000 characters and the format line.
C24_Witness ==
    \E i \in DOMAIN turns :
        /\ turns[i].pc = "stream"
        /\ turns[i].activeDoc # Null
        /\ turns[i].activeDoc.name = "long.pdf"
        /\ Len(turns[i].activeDoc.content) = 30012
        /\ Len(turns[i].sys) = Len(DEFAULT_SYSTEM_INSTRUCTION)
                                 + Len(ContextHeader(turns[i].activeDoc)) + 30000
                                 + Len("\n\nFORMAT: " \o FORMAT_OPTIONS.auto)


(***************************************************************************)
(* C22: the profile after a failed lookup                                  *)
(***************************************************************************)
\* C22: with the remote store configured and an authenticated user, when the
\* lookup of the profiles row ends with an error api.getProfile returns a
\* profile, not null and not an exception: the user's id, plan free, role user.
C22_DefaultProfileOnLookupError ==
    supabase =>
        \A u \in Users :
            LET profile == GetProfileResult([id |-> u], "error") IN
            /\ profile # Null
            /\ profile # Threw
            /\ profile = [id |-> u, role |-> "user", plan |-> "free"]

\* C22 witness: the administrator is signed in with the default profile, while
\* the profiles table holds the row that makes them an administrator on plan pro.
C22_Witness ==
    /\ supabase
    /\ user = [id |-> "u1", role |-> "user", plan |-> "free"]
    /\ RowsEq("profiles", "id", "u1") = <<[id |-> "u1", role |-> "admin", plan |-> "pro"]>>

(***************************************************************************)
(* C25: the plan of a user                                                 *)
(***************************************************************************)
\* The plan of the last upgrade alerted among the first n alerts, "free" before any.
RECURSIVE UpgradedPlan(_)
UpgradedPlan(n) ==
    IF n = 0 THEN "free"
    ELSE IF \E plan \in PlanType : alerts[n] = UpgradeAlert[plan]
         THEN CHOOSE plan \in PlanType : alerts[n] = UpgradeAlert[plan]
         ELSE UpgradedPlan(n - 1)

\* C25 (as stated): with the local store, the signed-in user has the plan of
\* the last upgrade (free before any) and the role user: nothing but
\* handleUpgrade changes the plan, signing out and in again included.
C25_AsStated ==
    (~supabase /\ user # Null) =>
        /\ user.plan = UpgradedPlan(Len(alerts))
        /\ user.role = "user"

(***************************************************************************)
(* C26: who changes the system instruction                                 *)
(***************************************************************************)
\* The step is AdminSettingsModal.handleSave calling api.setMasterPrompt.
SettingsSaveStep == \E prompt \in Prompts : AdminHandleSave(prompt)

\* The profile is an administrator's: by its own role, or by the role of its
\* row in the profiles table.
IsAdmin(profile) ==
    \/ profile.role = "admin"
    \/ \E k \in DOMAIN db.profiles :
            db.profiles[k].id = profile.id /\ db.profiles[k].role = "admin"

\* C26 (as stated): api.setMasterPrompt is called only on behalf of a profile
\* whose role is admin.
C26_AsStated ==
    [][SettingsSaveStep => IsAdmin(user)]_vars

====
